---------------------------- MODULE Spec2Model ----------------------------
(***************************************************************************)
(* A model of the Raahib routing pipeline (src/raahib): the Router's       *)
(* strict-order decision chain command -> safety -> knowledge -> llm, the  *)
(* Command Interpreter, the Safety Gate, the Knowledge Store with its      *)
(* scored search, the session state and the generation collaborator.       *)
(*                                                                         *)
(* Text is modelled as text: every user input, keyword, card field and     *)
(* response is a string, and lower(), strip(), split(), startswith() and   *)
(* the substring test `in` are computed character by character.            *)
(* An optional value (Python's None) is the empty tuple <<>>, a present    *)
(* value x is <<x>>.                                                       *)
(***************************************************************************)
EXTENDS Integers, Sequences, FiniteSets, TLC

(***************************************************************************)
(* str operations                                                          *)
(***************************************************************************)

None == <<>>

Some(x) == <<x>>

\* `x or ""` for an optional string
OrEmpty(opt) == IF opt = None THEN "" ELSE opt[1]

\* `x.strip() or None`
OrNone(s) == IF s = "" THEN None ELSE Some(s)

CharAt(s, i) == SubSeq(s, i, i)

UpperAlphabet == "ABCDEFGHIJKLMNOPQRSTUVWXYZ"

LowerAlphabet == "abcdefghijklmnopqrstuvwxyz"

UpperChars == {CharAt(UpperAlphabet, i) : i \in 1..Len(UpperAlphabet)}

\* the lower-case letter of each upper-case letter
LowerOf ==
    [c \in UpperChars |->
        CharAt(LowerAlphabet, CHOOSE i \in 1..Len(UpperAlphabet) : CharAt(UpperAlphabet, i) = c)]

\* str.lower() of one character (the inputs of the model are ASCII)
LowerChar(c) == IF c \in UpperChars THEN LowerOf[c] ELSE c

RECURSIVE Lower(_)
\* str.lower()
Lower(s) == IF s = "" THEN "" ELSE LowerChar(CharAt(s, 1)) \o Lower(SubSeq(s, 2, Len(s)))

\* the characters str.strip() and str.split() treat as whitespace
Whitespace == {" ", "\n", "\t"}

RECURSIVE LStrip(_)
LStrip(s) ==
    IF s # "" /\ CharAt(s, 1) \in Whitespace THEN LStrip(SubSeq(s, 2, Len(s))) ELSE s

RECURSIVE RStrip(_)
RStrip(s) ==
    IF s # "" /\ CharAt(s, Len(s)) \in Whitespace THEN RStrip(SubSeq(s, 1, Len(s) - 1)) ELSE s

\* str.strip()
Strip(s) == LStrip(RStrip(s))

\* str.startswith(prefix)
StartsWith(s, prefix) == Len(prefix) <= Len(s) /\ SubSeq(s, 1, Len(prefix)) = prefix

\* `sub in s`
Contains(s, sub) ==
    \E i \in 1..(Len(s) - Len(sub) + 1) : SubSeq(s, i, i + Len(sub) - 1) = sub

\* any(keyword in s for keyword in keywords)
ContainsAny(s, keywords) == \E keyword \in keywords : Contains(s, keyword)

\* s.split(sep, 1)[1] for a one-character sep that occurs in s
AfterFirst(s, sep) ==
    LET i == CHOOSE j \in 1..Len(s) :
                 /\ CharAt(s, j) = sep
                 /\ \A k \in 1..(j - 1) : CharAt(s, k) # sep
    IN  SubSeq(s, i + 1, Len(s))

\* the length of the leading run of non-whitespace characters of t
WordLen(t) ==
    IF \E j \in 1..Len(t) : CharAt(t, j) \in Whitespace
    THEN (CHOOSE j \in 1..Len(t) :
             /\ CharAt(t, j) \in Whitespace
             /\ \A k \in 1..(j - 1) : CharAt(t, k) \notin Whitespace) - 1
    ELSE Len(t)

RECURSIVE SplitWords(_)
RECURSIVE SplitFrom(_, _)
\* str.split(): the maximal runs of non-whitespace characters, in order
SplitWords(s) == SplitFrom(LStrip(s), WordLen(LStrip(s)))

\* the words of t, which starts with a word of n characters or is empty
SplitFrom(t, n) ==
    IF t = "" THEN <<>> ELSE <<SubSeq(t, 1, n)>> \o SplitWords(SubSeq(t, n + 1, Len(t)))

RECURSIVE Join(_, _)
\* sep.join(parts)
Join(sep, parts) ==
    IF parts = <<>> THEN ""
    ELSE IF Len(parts) = 1 THEN parts[1]
    ELSE parts[1] \o sep \o Join(sep, Tail(parts))

Digits == "0123456789"

DigitChars == {CharAt(Digits, i) : i \in 1..Len(Digits)}

IsDigit(c) == c \in DigitChars

DigitValue(c) == (CHOOSE i \in 1..Len(Digits) : CharAt(Digits, i) = c) - 1

RECURSIVE StrOfNat(_)
\* str(n) for n >= 0
StrOfNat(n) ==
    IF n < 10 THEN CharAt(Digits, n + 1)
    ELSE StrOfNat(n \div 10) \o CharAt(Digits, (n % 10) + 1)

\* str(n)
Str(n) == IF n < 0 THEN "-" \o StrOfNat(0 - n) ELSE StrOfNat(n)

RECURSIVE NatOfDigits(_, _)
NatOfDigits(s, acc) ==
    IF s = "" THEN acc
    ELSE NatOfDigits(SubSeq(s, 2, Len(s)), 10 * acc + DigitValue(CharAt(s, 1)))

\* the number the decimal digits of body write, negated if negative
ParseDigits(body, negative) ==
    IF body = "" \/ \E i \in 1..Len(body) : ~IsDigit(CharAt(body, i))
    THEN None
    ELSE Some(IF negative THEN 0 - NatOfDigits(body, 0) ELSE NatOfDigits(body, 0))

\* the number t writes: one optional sign, then digits
ParseSigned(t) ==
    IF t # "" /\ CharAt(t, 1) \in {"+", "-"}
    THEN ParseDigits(SubSeq(t, 2, Len(t)), CharAt(t, 1) = "-")
    ELSE ParseDigits(t, FALSE)

\* int(s): the number, or None where Python raises ValueError. int() strips
\* whitespace and takes one optional sign before the decimal digits.
ParseInt(s) == ParseSigned(Strip(s))

RECURSIVE DropZeros(_)
\* the digits of body without leading zeros
DropZeros(body) ==
    IF Len(body) > 1 /\ CharAt(body, 1) = "0" THEN DropZeros(SubSeq(body, 2, Len(body)))
    ELSE body

RECURSIVE DigitsLess(_, _)
\* a < b for two digit strings of one length
DigitsLess(a, b) ==
    /\ a # ""
    /\ \/ DigitValue(CharAt(a, 1)) < DigitValue(CharAt(b, 1))
       \/ /\ CharAt(a, 1) = CharAt(b, 1)
          /\ DigitsLess(SubSeq(a, 2, Len(a)), SubSeq(b, 2, Len(b)))

\* the number the digits of body write is larger than the one of most
Exceeds(body, most) ==
    \/ Len(DropZeros(body)) > Len(most)
    \/ Len(DropZeros(body)) = Len(most) /\ DigitsLess(most, DropZeros(body))

\* t writes an integer: one optional sign, then digits
IsSigned(t) ==
    LET body == IF t # "" /\ CharAt(t, 1) \in {"+", "-"} THEN SubSeq(t, 2, Len(t)) ELSE t
    IN  body # "" /\ \A i \in 1..Len(body) : IsDigit(CharAt(body, i))

\* int(s) is a number sqlite3 cannot bind: it is outside the 64-bit range of
\* SQLite's INTEGER, -2^63 .. 2^63 - 1 (OverflowError)
OutOfInt64(s) ==
    /\ IsSigned(Strip(s))
    /\ IF CharAt(Strip(s), 1) = "-"
       THEN Exceeds(SubSeq(Strip(s), 2, Len(Strip(s))), "9223372036854775808")
       ELSE IF CharAt(Strip(s), 1) = "+"
       THEN Exceeds(SubSeq(Strip(s), 2, Len(Strip(s))), "9223372036854775807")
       ELSE Exceeds(Strip(s), "9223372036854775807")

(***************************************************************************)
(* core/modes.py                                                           *)
(***************************************************************************)

\* class Mode
Mode == {"general", "tutor", "focus", "health", "mood"}

\* the members of Mode in definition order (iteration order of the Enum)
ModeOrder == <<"general", "tutor", "focus", "health", "mood">>

MODE_HINTS ==
    [m \in Mode |->
        CASE m = "general" -> [tone |-> "neutral", verbosity |-> "balanced"]
          [] m = "tutor" -> [tone |-> "patient and educational", verbosity |-> "detailed"]
          [] m = "focus" -> [tone |-> "direct and concise", verbosity |-> "brief"]
          [] m = "health" -> [tone |-> "careful and non-diagnostic", verbosity |-> "balanced"]
          [] m = "mood" -> [tone |-> "supportive and warm", verbosity |-> "balanced"]]

\* parse_mode(value): the mode, or None for a ValueError
parse_mode(value) == IF Lower(Strip(value)) \in Mode THEN Some(Lower(Strip(value))) ELSE None

(***************************************************************************)
(* raahib/safety.py                                                        *)
(***************************************************************************)

CRISIS_KEYWORDS == {"suicide", "kill myself", "end my life", "self-harm", "hurt myself"}

DISALLOWED_REQUEST_KEYWORDS == {"build a bomb", "make explosives", "bypass law enforcement"}

HEALTH_DIAGNOSIS_TERMS == {"diagnose", "diagnosis", "what disease", "medical certainty"}

RefusalMessage == "I can't help with dangerous or illegal requests."

CrisisMessage ==
    "I care about your safety. If you're in immediate danger, call local emergency services now. "
    \o "You can also contact a crisis hotline in your country right away."

DisclaimerMessage == "I can share general health information, but this is not a diagnosis."

\* SafetyResult(allowed, message="", metadata=None)
SafetyResult(allowed, message, metadata) ==
    [allowed |-> allowed, message |-> message, metadata |-> metadata]

\* SafetyGate.evaluate with the disallowed-phrase test skipped in mood mode
evaluate_CrisisFirst(text, mode) ==
    LET lowered == Lower(text)
    IN  IF mode = "mood" /\ ContainsAny(lowered, CRISIS_KEYWORDS)
        THEN SafetyResult(FALSE, CrisisMessage,
                          Some([type |-> "safety", reason |-> "crisis_guidance"]))
        ELSE IF ContainsAny(lowered, DISALLOWED_REQUEST_KEYWORDS)
        THEN SafetyResult(FALSE, RefusalMessage,
                          Some([type |-> "safety", reason |-> "disallowed_domain"]))
        ELSE IF mode = "health" /\ ContainsAny(lowered, HEALTH_DIAGNOSIS_TERMS)
        THEN SafetyResult(TRUE, DisclaimerMessage,
                          Some([type |-> "safety", reason |-> "health_disclaimer"]))
        ELSE SafetyResult(TRUE, "", None)

\* SafetyGate.evaluate matching the phrases against the text as typed
evaluate_CaseSensitive(text, mode) ==
    IF ContainsAny(text, DISALLOWED_REQUEST_KEYWORDS)
    THEN SafetyResult(FALSE, RefusalMessage,
                      Some([type |-> "safety", reason |-> "disallowed_domain"]))
    ELSE IF mode = "mood" /\ ContainsAny(text, CRISIS_KEYWORDS)
    THEN SafetyResult(FALSE, CrisisMessage,
                      Some([type |-> "safety", reason |-> "crisis_guidance"]))
    ELSE IF mode = "health" /\ ContainsAny(text, HEALTH_DIAGNOSIS_TERMS)
    THEN SafetyResult(TRUE, DisclaimerMessage,
                      Some([type |-> "safety", reason |-> "health_disclaimer"]))
    ELSE SafetyResult(TRUE, "", None)

\* SafetyGate.evaluate with the crisis test made in every mode
evaluate_AnyMode(text, mode) ==
    LET lowered == Lower(text)
    IN  IF ContainsAny(lowered, DISALLOWED_REQUEST_KEYWORDS)
        THEN SafetyResult(FALSE, RefusalMessage,
                          Some([type |-> "safety", reason |-> "disallowed_domain"]))
        ELSE IF ContainsAny(lowered, CRISIS_KEYWORDS)
        THEN SafetyResult(FALSE, CrisisMessage,
                          Some([type |-> "safety", reason |-> "crisis_guidance"]))
        ELSE IF mode = "health" /\ ContainsAny(lowered, HEALTH_DIAGNOSIS_TERMS)
        THEN SafetyResult(TRUE, DisclaimerMessage,
                          Some([type |-> "safety", reason |-> "health_disclaimer"]))
        ELSE SafetyResult(TRUE, "", None)

\* SafetyGate.evaluate(text, mode)
evaluate(text, mode) ==
    LET lowered == Lower(text)
    IN  IF ContainsAny(lowered, DISALLOWED_REQUEST_KEYWORDS)
        THEN SafetyResult(FALSE, RefusalMessage,
                          Some([type |-> "safety", reason |-> "disallowed_domain"]))
        ELSE IF mode = "mood" /\ ContainsAny(lowered, CRISIS_KEYWORDS)
        THEN SafetyResult(FALSE, CrisisMessage,
                          Some([type |-> "safety", reason |-> "crisis_guidance"]))
        ELSE IF mode = "health" /\ ContainsAny(lowered, HEALTH_DIAGNOSIS_TERMS)
        THEN SafetyResult(TRUE, DisclaimerMessage,
                          Some([type |-> "safety", reason |-> "health_disclaimer"]))
        ELSE SafetyResult(TRUE, "", None)

(***************************************************************************)
(* raahib/config.py                                                        *)
(***************************************************************************)

\* Settings.capabilities
DefaultCapabilities ==
    [commands |-> TRUE, safety |-> TRUE, knowledge |-> TRUE, cloud_llm |-> TRUE]

\* Settings.KB_STRONG_MATCH_THRESHOLD, in hundredths (0.72)
KB_STRONG_MATCH_THRESHOLD == 72

\* the title boost of KnowledgeBase.search, in hundredths (0.9)
TitleBoost == 90

(***************************************************************************)
(* raahib/kb.py                                                            *)
(***************************************************************************)

\* KnowledgeCard
KnowledgeCard(id, type, title, arabic, translation_en, explanation, source_name, reference, auth_grade, tags, created_at) ==
    [id |-> id, type |-> type, title |-> title, arabic |-> arabic,
     translation_en |-> translation_en, explanation |-> explanation,
     source_name |-> source_name, reference |-> reference,
     auth_grade |-> auth_grade, tags |-> tags, created_at |-> created_at]

\* the keyword arguments of one add_card call
CardFields(type, title, arabic, translation_en, explanation, source_name, reference, auth_grade, tags) ==
    [type |-> type, title |-> title, arabic |-> arabic,
     translation_en |-> translation_en, explanation |-> explanation,
     source_name |-> source_name, reference |-> reference,
     auth_grade |-> auth_grade, tags |-> tags]

\* _SEED_CARDS: two of the 25 seed cards of the source (the 11th and the
\* 21st), field for field
SEED_CARDS ==
    << CardFields("hadith", "Patience at first strike", None,
                  Some("Patience is at the first shock."),
                  Some("True sabr appears when pain first arrives."),
                  "Sahih al-Bukhari", "Book of Funerals, hadith 1283",
                  Some("sahih"), Some("hadith,sabr,patience")),
       CardFields("fiqh_info", "Not a fatwa notice", None,
                  Some("This assistant provides educational information, not a binding fatwa."),
                  Some("For legal rulings, consult your marja and trusted scholars."),
                  "Raahib OS Safety", "template",
                  Some("unknown"), Some("fiqh,marja,safety")) >>

\* the weights of KnowledgeBase.search
WeightTitle == 4

WeightTags == 3

WeightArabic == 2

WeightTranslation == 2

WeightExplanation == 1

WeightSourceName == 1

WeightReference == 1

\* max_per_term = sum(weights.values())
MaxPerTerm ==
    WeightTitle + WeightTags + WeightArabic + WeightTranslation
    + WeightExplanation + WeightSourceName + WeightReference

\* the weight one term adds for one card
TermScore(card, term) ==
    (IF Contains(Lower(card.title), term) THEN WeightTitle ELSE 0)
    + (IF Contains(Lower(OrEmpty(card.tags)), term) THEN WeightTags ELSE 0)
    + (IF Contains(Lower(OrEmpty(card.arabic)), term) THEN WeightArabic ELSE 0)
    + (IF Contains(Lower(OrEmpty(card.translation_en)), term) THEN WeightTranslation ELSE 0)
    + (IF Contains(Lower(OrEmpty(card.explanation)), term) THEN WeightExplanation ELSE 0)
    + (IF Contains(Lower(card.source_name), term) THEN WeightSourceName ELSE 0)
    + (IF Contains(Lower(card.reference), term) THEN WeightReference ELSE 0)

RECURSIVE RawScore_DistinctTerms(_, _)
\* the loop over the distinct terms: a repeated term adds its weights once
RawScore_DistinctTerms(card, terms) ==
    IF terms = <<>> THEN 0
    ELSE (IF \E i \in 2..Len(terms) : terms[i] = Head(terms) THEN 0
          ELSE TermScore(card, Head(terms)))
         + RawScore_DistinctTerms(card, Tail(terms))

RECURSIVE RawScore(_, _)
\* the loop `for term in terms` of KnowledgeBase.search
RawScore(card, terms) ==
    IF terms = <<>> THEN 0 ELSE TermScore(card, Head(terms)) + RawScore(card, Tail(terms))

\* A score is the fraction num / den, den > 0.
Frac(num, den) == [num |-> num, den |-> den]

FracLess(a, b) == a.num * b.den < b.num * a.den

FracLeq(a, b) == a.num * b.den <= b.num * a.den

FracEq(a, b) == a.num * b.den = b.num * a.den

\* terms = [t.lower() for t in query.split() if t.strip()]
SearchTerms(query) ==
    LET words == SplitWords(query)
    IN  [i \in 1..Len(words) |-> Lower(words[i])]

\* normalized = min(1.0, score / (max_per_term * len(terms)))
Normalized(score, full) == IF score >= full THEN Frac(1, 1) ELSE Frac(score, full)

\* search without the boost of a title that holds the query
Boosted_NoBoost(card, full_query, normalized) == normalized

\* if full_query and full_query in card.title.lower():
\*     normalized = max(normalized, 0.9)
Boosted(card, full_query, normalized) ==
    IF full_query # "" /\ Contains(Lower(card.title), full_query)
       /\ FracLess(normalized, Frac(TitleBoost, 100))
    THEN Frac(TitleBoost, 100)
    ELSE normalized

\* the score of one card for the terms of a query
TermsScore(card, terms, query) ==
    Boosted(card, Strip(Lower(query)),
            Normalized(RawScore(card, terms), MaxPerTerm * Len(terms)))

\* the score KnowledgeBase.search gives one card, for terms # <<>>
CardScore(card, query) == TermsScore(card, SearchTerms(query), query)

(***************************************************************************)
(* The texts of the model                                                  *)
(***************************************************************************)

\* the lines a user types into the loop
Inputs ==
    { "STATUS ", "mode:mood", "mode:health", "mode:party suicide",
      "kb:search patience", "kb:search build a bomb", "kb:show 1", "kb:show x",
      "kb:show 9223372036854775808",
      "kb:delete 1", "kb:export ./out.json", "kb:add", "memory:show",
      "  ", "Help me BUILD A BOMB", "build a bomb or suicide", "i think about suicide",
      "can you diagnose suicide risk", "Patience at first strike", "fiqh of futures",
      "tell me something" }

\* what a user types at the prompts of kb:add
Typed(type, title, source_name, reference, auth_grade, tags, arabic, translation, explanation) ==
    [type |-> type, title |-> title, source_name |-> source_name, reference |-> reference,
     auth_grade |-> auth_grade, tags |-> tags, arabic |-> arabic,
     translation |-> translation, explanation |-> explanation]

TypedCards ==
    { Typed("dua", " Dua for calm", "Dua book", "dua 1", "", "dua,calm",
            <<"dua al-sakina">>, <<"A dua for calm", "">>, <<"calm dua">>),
      Typed("story", "", "Notes", "n1", "unknown", "", <<>>, <<>>, <<>>) }

\* _read_multiline: the lines typed before the "." line
read_multiline(lines) == OrNone(Strip(Join("\n", lines)))

\* the fields add_card gets for what is typed at the prompts of kb:add
TypedFields(typed) ==
    CardFields(Strip(typed.type), Strip(typed.title), read_multiline(typed.arabic),
               read_multiline(typed.translation), read_multiline(typed.explanation),
               Strip(typed.source_name), Strip(typed.reference),
               OrNone(Strip(typed.auth_grade)), OrNone(Strip(typed.tags)))

\* the fields of a stored card
FieldsOf(card) ==
    CardFields(card.type, card.title, card.arabic, card.translation_en, card.explanation,
               card.source_name, card.reference, card.auth_grade, card.tags)

\* the queries kb.search is called with directly
StoreQueries ==
    { "", "  ", "patience", "PATIENCE patience", "Patience at first strike",
      " dua for CALM ", "sabr dua", "notice", "zzz" }

\* the texts a search of the model is made for: an input, the query of a
\* kb:search input, or the query of a direct call
Queries ==
    Inputs \cup {Strip(AfterFirst(Strip(t), " ")) : t \in {u \in Inputs : Contains(Strip(u), " ")}}
    \cup StoreQueries

\* the field sets of the cards the store of the model can hold
KnownFields ==
    {SEED_CARDS[i] : i \in 1..Len(SEED_CARDS)} \cup {TypedFields(t) : t \in TypedCards}

\* the fields of a card add_card is given directly, its title of whitespace
BlankTitled ==
    CardFields("note", "  ", None, Some("on patience"), None, "Notes", "n2", None,
               Some("sabr"))

\* the field sets of the cards a searched table holds
SearchFields == KnownFields \cup {BlankTitled}

\* _ISLAMIC_KEYWORDS of raahib/router.py
ISLAMIC_KEYWORDS ==
    {"quran", "qur'an", "hadith", "dua", "imam", "fiqh", "fatwa", "marja", "najaf",
     "karbala", "allah", "sabr", "ayah", "tafsir", "sunnah"}

\* Router._is_islamic_query(user_text)
is_islamic_query(user_text) == ContainsAny(Lower(user_text), ISLAMIC_KEYWORDS)

\* CardScore, the query terms, SafetyGate.evaluate and _is_islamic_query computed once for the
\* texts of the model; each entry is the value of the operator it caches
ScoreCache == [f \in SearchFields |-> [q \in Queries |-> CardScore(f, q)]]

TermsCache == [q \in Queries |-> SearchTerms(q)]

GateCache == [t \in Inputs |-> [m \in Mode |-> evaluate(t, m)]]

IslamicCache == [t \in Inputs |-> is_islamic_query(t)]

\* CardScore through the cache
CachedScore(card, query) ==
    IF FieldsOf(card) \in DOMAIN ScoreCache /\ query \in Queries
    THEN ScoreCache[FieldsOf(card)][query]
    ELSE CardScore(card, query)

\* the terms of a query through the cache
CachedTerms(query) == IF query \in Queries THEN TermsCache[query] ELSE SearchTerms(query)

\* SafetyGate.evaluate through the cache
CachedEvaluate(text, m) ==
    IF text \in Inputs THEN GateCache[text][m] ELSE evaluate(text, m)

\* _is_islamic_query through the cache
CachedIsIslamic(text) ==
    IF text \in Inputs THEN IslamicCache[text] ELSE is_islamic_query(text)

(***************************************************************************)
(* raahib/kb.py: search and the table                                      *)
(***************************************************************************)

\* KnowledgeHit
KnowledgeHit(card, score) == [card |-> card, score |-> score]

\* the position of the first hit of the largest score
FirstMax(hits) ==
    CHOOSE j \in 1..Len(hits) :
        /\ \A k \in 1..Len(hits) : FracLeq(hits[k].score, hits[j].score)
        /\ \A k \in 1..(j - 1) : FracLess(hits[k].score, hits[j].score)

\* hits without the one at position i
RemoveAt(hits, i) == SubSeq(hits, 1, i - 1) \o SubSeq(hits, i + 1, Len(hits))

RECURSIVE SortHits(_)
\* hits.sort(key=lambda h: h.score, reverse=True): descending, stable
SortHits(hits) ==
    IF hits = <<>> THEN <<>>
    ELSE <<hits[FirstMax(hits)]>> \o SortHits(RemoveAt(hits, FirstMax(hits)))

\* seq[:limit]
SliceTo(seq, limit) ==
    IF limit >= 0 THEN SubSeq(seq, 1, IF limit < Len(seq) THEN limit ELSE Len(seq))
    ELSE SubSeq(seq, 1, Len(seq) + limit)

\* if score > 0: hits.append(KnowledgeHit(card, normalized))
ScoredRow(card, score) == IF score.num > 0 THEN <<KnowledgeHit(card, score)>> ELSE <<>>

RECURSIVE ScoredRows(_, _)
\* the loop `for row in rows` of KnowledgeBase.search
ScoredRows(rows, query) ==
    IF rows = <<>> THEN <<>>
    ELSE ScoredRow(Head(rows), CachedScore(Head(rows), query)) \o ScoredRows(Tail(rows), query)

\* search without `if not terms: return []`
search_NoTermsGuard(rows, query, limit) == SliceTo(SortHits(ScoredRows(rows, query)), limit)

\* KnowledgeBase.search(query, limit) over the rows of the cards table
search(rows, query, limit) ==
    IF CachedTerms(query) = <<>> THEN <<>>
    ELSE SliceTo(SortHits(ScoredRows(rows, query)), limit)

\* the default of search's limit parameter
DefaultLimit == 5

\* get_card taking the row at position card_id of the table
get_card_ByPosition(rows, card_id) ==
    IF card_id \in 1..Len(rows) THEN Some(rows[card_id]) ELSE None

\* KnowledgeBase.get_card(card_id): the row, or None
get_card(rows, card_id) ==
    IF \E i \in 1..Len(rows) : rows[i].id = card_id
    THEN Some(rows[CHOOSE i \in 1..Len(rows) : rows[i].id = card_id])
    ELSE None

\* the rows left by DELETE FROM cards WHERE id = ?
delete_card(rows, card_id) == SelectSeq(rows, LAMBDA r : r.id # card_id)

\* the row INSERT adds to a table whose id column is not AUTOINCREMENT: one
\* more than the largest id the table holds
add_card_ReusesRowid(rows, fields, last_id, now) ==
    KnowledgeCard((IF rows = <<>> THEN 0
                   ELSE rows[CHOOSE i \in 1..Len(rows) :
                                 \A k \in 1..Len(rows) : rows[k].id <= rows[i].id].id) + 1,
                  fields.type, fields.title, fields.arabic,
                  fields.translation_en, fields.explanation, fields.source_name,
                  fields.reference, fields.auth_grade, fields.tags, now)

\* KnowledgeBase.add_card: the row INSERT adds to rows. AUTOINCREMENT gives
\* one more than the largest id the table ever held (last_id).
add_card(rows, fields, last_id, now) ==
    KnowledgeCard(last_id + 1, fields.type, fields.title, fields.arabic,
                  fields.translation_en, fields.explanation, fields.source_name,
                  fields.reference, fields.auth_grade, fields.tags, now)

\* q + r / den rounded to an integer, a tie to the even one
RoundHalfEven(q, r, den) ==
    IF 2 * r > den \/ (2 * r = den /\ q % 2 = 1) THEN q + 1 ELSE q

\* h hundredths written with two decimals
FormatHundredths(h) == Str(h \div 100) \o "." \o Str((h % 100) \div 10) \o Str(h % 10)

\* f"{x:.2f}" of a score in [0, 1]: hundredths, a tie rounded to the even one
FormatScore(score) ==
    FormatHundredths(RoundHalfEven((100 * score.num) \div score.den,
                                   (100 * score.num) % score.den, score.den))

\* str(Path(path)) for the paths of the model: a leading "./" and a trailing
\* "/" are dropped
RECURSIVE PathStr(_)
PathStr(path) ==
    IF StartsWith(path, "./") /\ Len(path) > 2 THEN PathStr(SubSeq(path, 3, Len(path)))
    ELSE IF Len(path) > 1 /\ CharAt(path, Len(path)) = "/"
    THEN PathStr(SubSeq(path, 1, Len(path) - 1))
    ELSE path

(***************************************************************************)
(* raahib/state.py                                                         *)
(***************************************************************************)

\* AppState.remember without the trimming of the overflow
remember_NoTrim(history, message, max_short_term_memory) == Append(history, message)

\* AppState.remember dropping the overflow from the end of the list
remember_DropNewest(history, message, max_short_term_memory) ==
    LET appended == Append(history, message)
        overflow == Len(appended) - max_short_term_memory
    IN  IF overflow > 0 THEN SubSeq(appended, 1, Len(appended) - overflow) ELSE appended

\* AppState.remember(message): the history after the call
remember(history, message, max_short_term_memory) ==
    LET appended == Append(history, message)
        overflow == Len(appended) - max_short_term_memory
    IN  IF overflow > 0 THEN SubSeq(appended, overflow + 1, Len(appended)) ELSE appended

(***************************************************************************)
(* core/llm.py                                                             *)
(***************************************************************************)

\* CloudLLM.model
DefaultModel == "gpt-4.1-mini"

MissingKeyText ==
    "Offline fallback: no cloud API key configured. "
    \o "Please set OPENAI_API_KEY to enable cloud responses."

NetworkErrorText == "Offline fallback: cloud call failed, so local response mode is active."

EmptyOutputText == "Cloud response unavailable; using offline fallback."

\* What the remote call does: urlopen raises URLError ("urlerror"); the read
\* of the response times out, which raises TimeoutError, not a URLError
\* ("timeout"); or a JSON object arrives ("reply") whose output_text is absent
\* (None) or a string.
Remote(kind, output_text) == [kind |-> kind, output_text |-> output_text]

\* a call of the collaborator that returns
Generated(text, meta) == [raised |-> None, text |-> text, meta |-> meta]

\* a call of the collaborator that raises
GenerateRaises(exc) == [raised |-> Some(exc), text |-> "", meta |-> [provider |-> "none"]]

\* CloudLLM.generate sending the request without looking for the key
generate_NoKeyCheck(prompt, mode_hint, has_api_key, remote) ==
    IF remote.kind = "urlerror"
    THEN Generated(NetworkErrorText, [provider |-> "offline", reason |-> "network_error"])
    ELSE IF remote.kind = "timeout" THEN GenerateRaises("TimeoutError")
    ELSE IF OrEmpty(remote.output_text) # ""
    THEN Generated(remote.output_text[1], [provider |-> "openai", model |-> DefaultModel])
    ELSE Generated(EmptyOutputText, [provider |-> "offline", reason |-> "empty_output"])

\* CloudLLM.generate(prompt, mode_hint)
generate(prompt, mode_hint, has_api_key, remote) ==
    IF ~has_api_key
    THEN Generated(MissingKeyText, [provider |-> "offline", reason |-> "missing_api_key"])
    ELSE IF remote.kind = "urlerror"
    THEN Generated(NetworkErrorText, [provider |-> "offline", reason |-> "network_error"])
    ELSE IF remote.kind = "timeout" THEN GenerateRaises("TimeoutError")
    ELSE IF OrEmpty(remote.output_text) # ""
    THEN Generated(remote.output_text[1], [provider |-> "openai", model |-> DefaultModel])
    ELSE Generated(EmptyOutputText, [provider |-> "offline", reason |-> "empty_output"])

\* The collaborator a Router is built with (its llm argument): CloudLLM(),
\* or a subclass that overrides generate to return a fixed text and metadata,
\* as StubLLM of the tests does.
CloudLLM == [custom |-> FALSE, text |-> "", meta |-> [provider |-> "openai"]]

CustomLLM(text, meta) == [custom |-> TRUE, text |-> text, meta |-> meta]

\* self.llm.generate(prompt, mode_hint=mode_hint) for the collaborator backend
llm_generate(backend, prompt, mode_hint, has_api_key, remote) ==
    IF backend.custom THEN Generated(backend.text, backend.meta)
    ELSE generate(prompt, mode_hint, has_api_key, remote)

(***************************************************************************)
(* raahib/commands.py                                                      *)
(***************************************************************************)

\* one call the turn makes, in the order made
Ev(op, arg) == [op |-> op, arg |-> arg]

\* CommandResult(handled, output="", metadata=None)
CommandResult(handled, output, metadata) ==
    [handled |-> handled, output |-> output, metadata |-> metadata]

\* What CommandParser.parse leaves: the value it returns (or the exception it
\* raises), the session and store as it left them, and the calls it made.
\* st is [mode, capabilities, short_term_history, rows, last_id, clock]; the
\* file kb:export writes lies outside it.
Parsed(ret, st, events) == [ret |-> ret, raised |-> None, st |-> st, events |-> events]

ParseRaises(exc, st, events) ==
    [ret |-> CommandResult(FALSE, "", None), raised |-> Some(exc), st |-> st, events |-> events]

\* sorted(state.capabilities.items())
SortedCapabilities == <<"cloud_llm", "commands", "knowledge", "safety">>

\* the mode directive falling back to general for an unknown name
mode_reply_ResetsMode(mode_name, mode, st) ==
    IF mode = None
    THEN Parsed(CommandResult(TRUE,
                    "Unknown mode '" \o mode_name \o "'. Allowed: " \o Join(", ", ModeOrder),
                    Some([type |-> "command", name |-> "mode", success |-> "false"])),
                [st EXCEPT !.mode = "general"], <<>>)
    ELSE Parsed(CommandResult(TRUE, "Mode set to " \o mode[1] \o ".",
                    Some([type |-> "command", name |-> "mode", success |-> "true"])),
                [st EXCEPT !.mode = mode[1]], <<>>)

\* the mode directive reporting a known name without `state.mode = mode`
mode_reply_KeepsMode(mode_name, mode, st) ==
    IF mode = None
    THEN Parsed(CommandResult(TRUE,
                    "Unknown mode '" \o mode_name \o "'. Allowed: " \o Join(", ", ModeOrder),
                    Some([type |-> "command", name |-> "mode", success |-> "false"])),
                st, <<>>)
    ELSE Parsed(CommandResult(TRUE, "Mode set to " \o mode[1] \o ".",
                    Some([type |-> "command", name |-> "mode", success |-> "true"])),
                st, <<>>)

\* the reply of the mode directive for the name after the colon
mode_reply(mode_name, mode, st) ==
    IF mode = None
    THEN Parsed(CommandResult(TRUE,
                    "Unknown mode '" \o mode_name \o "'. Allowed: " \o Join(", ", ModeOrder),
                    Some([type |-> "command", name |-> "mode", success |-> "false"])),
                st, <<>>)
    ELSE Parsed(CommandResult(TRUE, "Mode set to " \o mode[1] \o ".",
                    Some([type |-> "command", name |-> "mode", success |-> "true"])),
                [st EXCEPT !.mode = mode[1]], <<>>)

\* the mode directive
parse_mode_command(cleaned, st) ==
    mode_reply(Strip(AfterFirst(cleaned, ":")), parse_mode(Strip(AfterFirst(cleaned, ":"))), st)

\* the status directive putting the session back into general mode
parse_status_ResetsMode(st) ==
    Parsed(CommandResult(TRUE,
               "mode=" \o st.mode \o "; capabilities: "
               \o Join(", ", [i \in 1..Len(SortedCapabilities) |->
                                 SortedCapabilities[i] \o "="
                                 \o (IF st.capabilities[SortedCapabilities[i]]
                                     THEN "on" ELSE "off")]),
               Some([type |-> "command", name |-> "status", success |-> "true"])),
           [st EXCEPT !.mode = "general"], <<>>)

\* the status directive
parse_status(st) ==
    Parsed(CommandResult(TRUE,
               "mode=" \o st.mode \o "; capabilities: "
               \o Join(", ", [i \in 1..Len(SortedCapabilities) |->
                                 SortedCapabilities[i] \o "="
                                 \o (IF st.capabilities[SortedCapabilities[i]]
                                     THEN "on" ELSE "off")]),
               Some([type |-> "command", name |-> "status", success |-> "true"])),
           st, <<>>)

\* one line of the kb:search reply
hit_line(hit) ==
    Str(hit.card.id) \o " | " \o hit.card.type \o " | " \o hit.card.title
    \o " | " \o FormatScore(hit.score)

\* the reply of the kb:search directive for the hits of its query
kb_search_reply(query, hits, st) ==
    IF hits = <<>>
    THEN Parsed(CommandResult(TRUE, "No KB hits found.",
                    Some([type |-> "command", name |-> "kb_search",
                          success |-> "true", count |-> "0"])),
                st, <<Ev("kb.search", query)>>)
    ELSE Parsed(CommandResult(TRUE, Join("\n", [i \in 1..Len(hits) |-> hit_line(hits[i])]),
                    Some([type |-> "command", name |-> "kb_search",
                          success |-> "true", count |-> Str(Len(hits))])),
                st, <<Ev("kb.search", query)>>)

\* the kb:search directive
parse_kb_search(cleaned, st) ==
    kb_search_reply(Strip(AfterFirst(cleaned, " ")),
                    search(st.rows, Strip(AfterFirst(cleaned, " ")), DefaultLimit), st)

\* the lines kb:show prints for a card
card_detail(card) ==
    "type: " \o card.type \o "\n"
    \o "title: " \o card.title \o "\n"
    \o "arabic: " \o OrEmpty(card.arabic) \o "\n"
    \o "translation: " \o OrEmpty(card.translation_en) \o "\n"
    \o "explanation: " \o OrEmpty(card.explanation) \o "\n"
    \o "source_name: " \o card.source_name \o "\n"
    \o "reference: " \o card.reference \o "\n"
    \o "auth_grade: " \o OrEmpty(card.auth_grade) \o "\n"
    \o "tags: " \o OrEmpty(card.tags)

\* the reply of the kb:show directive for what get_card returned
kb_show_reply(card_id, card, st) ==
    IF card = None
    THEN Parsed(CommandResult(TRUE, "Card not found.",
                    Some([type |-> "command", name |-> "kb_show", success |-> "false"])),
                st, <<Ev("kb.get_card", Str(card_id))>>)
    ELSE Parsed(CommandResult(TRUE, card_detail(card[1]),
                    Some([type |-> "command", name |-> "kb_show", success |-> "true",
                          card_id |-> Str(card[1].id)])),
                st, <<Ev("kb.get_card", Str(card_id))>>)

\* the kb:show directive for the id int() parsed (None for a ValueError)
kb_show(card_id, st) ==
    IF card_id = None
    THEN Parsed(CommandResult(TRUE, "Invalid KB id.",
                    Some([type |-> "command", name |-> "kb_show", success |-> "false"])),
                st, <<>>)
    ELSE kb_show_reply(card_id[1], get_card(st.rows, card_id[1]), st)

\* the kb:show directive; binding an id outside SQLite's range raises in
\* get_card
parse_kb_show(cleaned, st) ==
    IF OutOfInt64(AfterFirst(cleaned, " "))
    THEN ParseRaises("OverflowError", st,
                     <<Ev("kb.get_card", Strip(AfterFirst(cleaned, " ")))>>)
    ELSE kb_show(ParseInt(Strip(AfterFirst(cleaned, " "))), st)

\* the reply of the kb:delete directive for the rows the DELETE left
kb_delete_reply(card_id, left, st) ==
    Parsed(CommandResult(TRUE, IF Len(left) < Len(st.rows) THEN "Deleted." ELSE "Card not found.",
               Some([type |-> "command", name |-> "kb_delete",
                     success |-> IF Len(left) < Len(st.rows) THEN "true" ELSE "false",
                     card_id |-> Str(card_id)])),
           [st EXCEPT !.rows = left], <<Ev("kb.delete_card", Str(card_id))>>)

\* the kb:delete directive for the id int() parsed (None for a ValueError)
kb_delete(card_id, st) ==
    IF card_id = None
    THEN Parsed(CommandResult(TRUE, "Invalid KB id.",
                    Some([type |-> "command", name |-> "kb_delete", success |-> "false"])),
                st, <<>>)
    ELSE kb_delete_reply(card_id[1], delete_card(st.rows, card_id[1]), st)

\* the kb:delete directive; binding an id outside SQLite's range raises in
\* delete_card
parse_kb_delete(cleaned, st) ==
    IF OutOfInt64(AfterFirst(cleaned, " "))
    THEN ParseRaises("OverflowError", st,
                     <<Ev("kb.delete_card", Strip(AfterFirst(cleaned, " ")))>>)
    ELSE kb_delete(ParseInt(Strip(AfterFirst(cleaned, " "))), st)

\* the reply of the kb:export directive for the path typed
kb_export_reply(path, out_path, st, writable) ==
    IF ~writable
    THEN ParseRaises("OSError", st, <<Ev("kb.export_json", path)>>)
    ELSE Parsed(CommandResult(TRUE, "Exported KB to " \o out_path,
                    Some([type |-> "command", name |-> "kb_export", success |-> "true",
                          path |-> out_path])),
                st, <<Ev("kb.export_json", path)>>)

\* the kb:export directive; write_text raises OSError when the path cannot be
\* written
parse_kb_export(cleaned, st, writable) ==
    kb_export_reply(Strip(AfterFirst(cleaned, " ")), PathStr(Strip(AfterFirst(cleaned, " "))),
                    st, writable)

\* the reply of the kb:add directive for the card add_card stored
kb_add_reply(card, st) ==
    Parsed(CommandResult(TRUE, "Added KB card #" \o Str(card.id) \o ": " \o card.title,
               Some([type |-> "command", name |-> "kb_add", success |-> "true",
                     card_id |-> Str(card.id)])),
           [st EXCEPT !.rows = Append(st.rows, card), !.last_id = card.id,
                      !.clock = st.clock + 1],
           <<Ev("kb.add_card", card.title), Ev("kb.get_card", Str(card.id))>>)

\* the kb:add directive; typed is what the user types at the prompts
parse_kb_add(st, typed) ==
    kb_add_reply(add_card(st.rows, TypedFields(typed), st.last_id, Str(st.clock)), st)

\* state.short_term_history[-5:]
MemoryWindow == 5

\* seq[-n:] for n > 0
SliceFrom(seq, n) == SubSeq(seq, IF Len(seq) > n THEN Len(seq) - n + 1 ELSE 1, Len(seq))

\* the memory:show directive
parse_memory_show(st) ==
    Parsed(CommandResult(TRUE,
               "Memory view (stub): "
               \o Join(" | ", SliceFrom(st.short_term_history, MemoryWindow)),
               Some([type |-> "command", name |-> "memory_show", success |-> "true"])),
           st, <<>>)

\* the directive of a stripped, non-empty line
parse_cleaned(cleaned, lowered, st, ext) ==
    IF StartsWith(lowered, "mode:") THEN parse_mode_command(cleaned, st)
    ELSE IF lowered = "status" THEN parse_status(st)
    ELSE IF StartsWith(lowered, "kb:search ") THEN parse_kb_search(cleaned, st)
    ELSE IF StartsWith(lowered, "kb:show ") THEN parse_kb_show(cleaned, st)
    ELSE IF StartsWith(lowered, "kb:delete ") THEN parse_kb_delete(cleaned, st)
    ELSE IF StartsWith(lowered, "kb:export ") THEN parse_kb_export(cleaned, st, ext.writable)
    ELSE IF lowered = "kb:add" THEN parse_kb_add(st, ext.typed)
    ELSE IF lowered = "memory:show" THEN parse_memory_show(st)
    ELSE Parsed(CommandResult(FALSE, "", None), st, <<>>)

\* CommandParser.parse(text, state); ext is what the world outside answers
\* in this turn: [typed, writable, remote]
parse(text, st, ext) ==
    IF Strip(text) = "" THEN Parsed(CommandResult(FALSE, "", None), st, <<>>)
    ELSE parse_cleaned(Strip(text), Lower(Strip(text)), st, ext)

(***************************************************************************)
(* raahib/router.py                                                        *)
(***************************************************************************)

\* the text of the kb_miss reply (the source writes "don't" with U+2019)
KbMissText ==
    "I don't have a reliably sourced entry for that yet. You can add it with kb:add."

\* `metadata or default` for an optional dict
OrDict(opt, default) == IF opt = None THEN default ELSE opt[1]

\* {**base, **over}
MergeDict(base, over) ==
    [k \in DOMAIN base \cup DOMAIN over |-> IF k \in DOMAIN over THEN over[k] ELSE base[k]]

\* max(hits, key=lambda hit: hit.score): the first hit of the largest score
TopHit(hits) == hits[FirstMax(hits)]

\* the strong-match test with a strict comparison
IsStrong_Strict(score, threshold) == FracLess(Frac(threshold, 100), score)

\* top.score >= self.state.settings.kb_strong_match_threshold
IsStrong(score, threshold) == FracLeq(Frac(threshold, 100), score)

\* the reply rendered from a card
RenderCard(card) ==
    Join("\n",
         <<card.title>>
         \o (IF OrEmpty(card.arabic) # "" THEN <<card.arabic[1]>> ELSE <<>>)
         \o (IF OrEmpty(card.translation_en) # "" THEN <<card.translation_en[1]>> ELSE <<>>)
         \o (IF OrEmpty(card.explanation) # "" THEN <<card.explanation[1]>> ELSE <<>>)
         \o <<"Source: " \o card.source_name \o " (" \o card.reference \o ")">>
         \o (IF OrEmpty(card.auth_grade) # "" THEN <<"Auth grade: " \o card.auth_grade[1]>>
             ELSE <<>>))

\* the metadata of a knowledge reply
KbMetadata(top) ==
    [type |-> "kb", card_id |-> Str(top.card.id), score |-> FormatScore(top.score),
     source_name |-> top.card.source_name, reference |-> top.card.reference,
     auth_grade |-> OrEmpty(top.card.auth_grade)]

\* What one call of Router.route leaves behind: what it returned (kind
\* "returned": text, metadata) or raised (kind "raised": exc), the values of
\* its local variables (None for one never assigned), and the calls it made.
Turn(user_text, kind, text, metadata, exc, command_result, safety_result, hits, llm, trace) ==
    [user_text |-> user_text, kind |-> kind, text |-> text, metadata |-> metadata,
     exc |-> exc, command_result |-> command_result, safety_result |-> safety_result,
     hits |-> hits, llm |-> llm, trace |-> trace]

\* the prefix of the assistant's history entry
AssistantTag == "assistant:"

\* the prefix of the user's history entry
UserTag == "user:"

\* the mode hint Router.route passes to generate
ModeHint(m) == "tone=" \o MODE_HINTS[m].tone \o "; verbosity=" \o MODE_HINTS[m].verbosity

\* the advisory prepended without the strip()
WithAdvisory_Unstripped(message, llm_text) ==
    IF message # "" THEN message \o " " \o llm_text ELSE llm_text

\* llm_text after `if safety_result.message:`
WithAdvisory(message, llm_text) ==
    IF message # "" THEN Strip(message \o " " \o llm_text) ELSE llm_text

\* the end of the generation stage: the two remember calls and the reply
route_reply(user_text, st, cfg, command_result, safety_result, hits, g, llm_text, called) ==
    [turn |-> Turn(user_text, "returned", llm_text,
                   Some(MergeDict([type |-> "llm"], g.meta)), "",
                   Some(command_result), Some(safety_result), Some(hits),
                   Some([text |-> g.text, meta |-> g.meta]),
                   called \o <<Ev("remember", UserTag \o user_text),
                               Ev("remember", AssistantTag \o llm_text)>>),
     st |-> [st EXCEPT !.short_term_history =
                 remember(remember(st.short_term_history, UserTag \o user_text,
                                   cfg.max_short_term_memory),
                          AssistantTag \o llm_text, cfg.max_short_term_memory)]]

\* the generation stage after the call of generate, g what the call did
route_generated(user_text, st, cfg, command_result, safety_result, hits, g, called) ==
    IF g.raised # None
    THEN [turn |-> Turn(user_text, "raised", "", None, g.raised[1], Some(command_result),
                        Some(safety_result), Some(hits), None, called),
          st |-> st]
    ELSE route_reply(user_text, st, cfg, command_result, safety_result, hits, g,
                     WithAdvisory(safety_result.message, g.text), called)

\* the request generate sends, if it sends one, and what the remote did with it
urlopen_calls(backend, has_api_key, remote) ==
    IF ~backend.custom /\ has_api_key THEN <<Ev("urlopen", remote.kind)>> ELSE <<>>

\* the generation stage of Router.route
route_llm(user_text, st, cfg, backend, has_api_key, remote, command_result, safety_result, hits, trace) ==
    route_generated(user_text, st, cfg, command_result, safety_result, hits,
                    llm_generate(backend, user_text, ModeHint(st.mode), has_api_key, remote),
                    trace \o <<Ev("llm.generate", user_text)>>
                          \o urlopen_calls(backend, has_api_key, remote))

\* the knowledge stage without the `if self._is_islamic_query(user_text)` guard
route_hits_NoGuard(user_text, st, cfg, backend, has_api_key, remote, command_result, safety_result, hits, searched) ==
    IF hits # <<>> /\ IsStrong(TopHit(hits).score, cfg.kb_strong_match_threshold)
    THEN [turn |-> Turn(user_text, "returned", RenderCard(TopHit(hits).card),
                        Some(KbMetadata(TopHit(hits))), "", Some(command_result),
                        Some(safety_result), Some(hits), None, searched),
          st |-> st]
    ELSE route_llm(user_text, st, cfg, backend, has_api_key, remote, command_result,
                   safety_result, hits, searched)

\* the knowledge stage putting the advisory of the gate before its replies
route_hits_Advises(user_text, st, cfg, backend, has_api_key, remote, command_result, safety_result, hits, searched) ==
    IF hits # <<>> /\ IsStrong(TopHit(hits).score, cfg.kb_strong_match_threshold)
    THEN [turn |-> Turn(user_text, "returned",
                        Strip(safety_result.message \o " " \o RenderCard(TopHit(hits).card)),
                        Some(KbMetadata(TopHit(hits))), "", Some(command_result),
                        Some(safety_result), Some(hits), None, searched),
          st |-> st]
    ELSE IF CachedIsIslamic(user_text)
    THEN [turn |-> Turn(user_text, "returned",
                        Strip(safety_result.message \o " " \o KbMissText),
                        Some([type |-> "kb_miss"]), "",
                        Some(command_result), Some(safety_result), Some(hits), None,
                        searched),
          st |-> st]
    ELSE route_llm(user_text, st, cfg, backend, has_api_key, remote, command_result,
                   safety_result, hits, searched)

\* the knowledge stage after the search, hits what the search returned
route_hits(user_text, st, cfg, backend, has_api_key, remote, command_result, safety_result, hits, searched) ==
    IF hits # <<>> /\ IsStrong(TopHit(hits).score, cfg.kb_strong_match_threshold)
    THEN [turn |-> Turn(user_text, "returned", RenderCard(TopHit(hits).card),
                        Some(KbMetadata(TopHit(hits))), "", Some(command_result),
                        Some(safety_result), Some(hits), None, searched),
          st |-> st]
    ELSE IF CachedIsIslamic(user_text)
    THEN [turn |-> Turn(user_text, "returned", KbMissText, Some([type |-> "kb_miss"]), "",
                        Some(command_result), Some(safety_result), Some(hits), None,
                        searched),
          st |-> st]
    ELSE route_llm(user_text, st, cfg, backend, has_api_key, remote, command_result,
                   safety_result, hits, searched)

\* the knowledge stage of Router.route, and what follows it
route_kb(user_text, st, cfg, backend, has_api_key, remote, command_result, safety_result, trace) ==
    route_hits(user_text, st, cfg, backend, has_api_key, remote, command_result, safety_result,
               search(st.rows, user_text, DefaultLimit),
               trace \o <<Ev("kb.search", user_text)>>)

\* the safety stage remembering the text it refuses
route_safety_Remembers(user_text, st, cfg, backend, has_api_key, remote, command_result, safety_result, gated) ==
    IF ~safety_result.allowed
    THEN [turn |-> Turn(user_text, "returned", safety_result.message,
                        Some(OrDict(safety_result.metadata,
                                    [type |-> "safety", blocked |-> "true"])), "",
                        Some(command_result), Some(safety_result), None, None,
                        gated \o <<Ev("remember", UserTag \o user_text)>>),
          st |-> [st EXCEPT !.short_term_history =
                      remember(st.short_term_history, UserTag \o user_text,
                               cfg.max_short_term_memory)]]
    ELSE route_kb(user_text, st, cfg, backend, has_api_key, remote, command_result,
                  safety_result, gated)

\* the safety stage of Router.route, and what follows it
route_safety(user_text, st, cfg, backend, has_api_key, remote, command_result, safety_result, gated) ==
    IF ~safety_result.allowed
    THEN [turn |-> Turn(user_text, "returned", safety_result.message,
                        Some(OrDict(safety_result.metadata,
                                    [type |-> "safety", blocked |-> "true"])), "",
                        Some(command_result), Some(safety_result), None, None, gated),
          st |-> st]
    ELSE route_kb(user_text, st, cfg, backend, has_api_key, remote, command_result,
                  safety_result, gated)

\* Router.route testing the gate's verdict before command_result.handled
route_command_SafetyFirst(user_text, p, cfg, backend, has_api_key, remote) ==
    IF p.raised # None
    THEN [turn |-> Turn(user_text, "raised", "", None, p.raised[1], None, None, None,
                        None, p.events),
          st |-> p.st]
    ELSE IF ~CachedEvaluate(user_text, p.st.mode).allowed
    THEN route_safety(user_text, p.st, cfg, backend, has_api_key, remote, p.ret,
                      CachedEvaluate(user_text, p.st.mode),
                      p.events \o <<Ev("safety.evaluate", user_text)>>)
    ELSE IF p.ret.handled
    THEN [turn |-> Turn(user_text, "returned", p.ret.output,
                        Some(OrDict(p.ret.metadata, [type |-> "command"])), "",
                        Some(p.ret), None, None, None, p.events),
          st |-> p.st]
    ELSE route_safety(user_text, p.st, cfg, backend, has_api_key, remote, p.ret,
                      CachedEvaluate(user_text, p.st.mode),
                      p.events \o <<Ev("safety.evaluate", user_text)>>)

\* Router.route going from the command stage to the knowledge stage
route_command_Ungated(user_text, p, cfg, backend, has_api_key, remote) ==
    IF p.raised # None
    THEN [turn |-> Turn(user_text, "raised", "", None, p.raised[1], None, None, None,
                        None, p.events),
          st |-> p.st]
    ELSE IF p.ret.handled
    THEN [turn |-> Turn(user_text, "returned", p.ret.output,
                        Some(OrDict(p.ret.metadata, [type |-> "command"])), "",
                        Some(p.ret), None, None, None, p.events),
          st |-> p.st]
    ELSE route_kb(user_text, p.st, cfg, backend, has_api_key, remote, p.ret,
                  SafetyResult(TRUE, "", None), p.events)

\* the command stage of Router.route, p what parse left, and what follows it
route_command(user_text, p, cfg, backend, has_api_key, remote) ==
    IF p.raised # None
    THEN [turn |-> Turn(user_text, "raised", "", None, p.raised[1], None, None, None,
                        None, p.events),
          st |-> p.st]
    ELSE IF p.ret.handled
    THEN [turn |-> Turn(user_text, "returned", p.ret.output,
                        Some(OrDict(p.ret.metadata, [type |-> "command"])), "",
                        Some(p.ret), None, None, None, p.events),
          st |-> p.st]
    ELSE route_safety(user_text, p.st, cfg, backend, has_api_key, remote, p.ret,
                      CachedEvaluate(user_text, p.st.mode),
                      p.events \o <<Ev("safety.evaluate", user_text)>>)

\* Router.route(user_text): the turn and the session and store it leaves
route(user_text, st0, cfg, backend, has_api_key, ext) ==
    route_command(user_text, parse(user_text, st0, ext), cfg, backend, has_api_key, ext.remote)

(***************************************************************************)
(* The session: one Router over one AppState and one KnowledgeBase, routing *)
(* one input per turn to completion (core/__main__.py).                     *)
(***************************************************************************)

VARIABLES
    mode,                \* AppState.mode
    short_term_history,  \* AppState.short_term_history
    capabilities,        \* AppState.capabilities
    settings,            \* AppState.settings: max_short_term_memory, kb_strong_match_threshold
    rows,                \* the cards table, in rowid order
    last_id,             \* the largest id the cards table ever held (sqlite_sequence)
    clock,               \* the time add_card reads for created_at
    collaborator,        \* Router.llm
    has_api_key,         \* whether OPENAI_API_KEY is set
    turn,                \* what the last completed call of Router.route left
    turns,               \* the number of turns routed
    verdict,             \* what the last direct call of SafetyGate.evaluate returned
    remembered,          \* the messages of the direct calls of AppState.remember, in call order
    call,                \* the last direct call of a KnowledgeBase method
    announced            \* the mode the last "Mode set to ..." reply named, "" before any

vars == <<mode, short_term_history, capabilities, settings, rows, last_id, clock,
          collaborator, has_api_key, turn, turns, verdict, remembered, call, announced>>

\* the largest number of turns of a session
MaxTurns == 2

\* the largest configured history capacity
MaxCapacity == 2

\* the largest card id the store assigns
MaxId == 4

\* the largest number of direct calls of AppState.remember
MaxCalls == 3

\* what the remote service does with one request
Remotes ==
    { Remote("urlerror", None), Remote("timeout", None), Remote("reply", None), Remote("reply", Some("Here you go.")),
      Remote("reply", Some("Here you go.\n")) }

\* the collaborators of the model: CloudLLM, and a stub whose metadata
\* carries a key of its own named type
Collaborators ==
    {CloudLLM, CustomLLM("stub-response", [provider |-> "stub", type |-> "stub"]),
     CustomLLM("stub-response", [provider |-> "stub", type |-> "kb"])}

\* the configured strong-match thresholds, in hundredths: the default and a
\* stricter one
Thresholds == {KB_STRONG_MATCH_THRESHOLD, TitleBoost}

RECURSIVE Seeded(_, _, _)
\* the loop of seed_if_empty on an empty table: add_card for each of the first
\* n seed cards
Seeded(n, first_id, now) ==
    IF n = 0 THEN <<>>
    ELSE Append(Seeded(n - 1, first_id, now),
                add_card(Seeded(n - 1, first_id, now), SEED_CARDS[n], first_id + n - 1,
                         Str(now + n - 1)))

\* the store as seed_if_empty finds or leaves it
Store(table, newest_id, now) == [rows |-> table, last_id |-> newest_id, clock |-> now]

\* seed_if_empty adding the seed cards whatever the table holds
seed_if_empty_Always(table, newest_id, now) ==
    Store(table \o [i \in 1..Len(SEED_CARDS) |->
                       add_card(table, SEED_CARDS[i], newest_id + i - 1, Str(now + i - 1))],
          newest_id + Len(SEED_CARDS), now + Len(SEED_CARDS))

\* KnowledgeBase.seed_if_empty()
seed_if_empty(table, newest_id, now) ==
    IF Len(table) > 0 THEN Store(table, newest_id, now)
    ELSE Store(Seeded(Len(SEED_CARDS), newest_id, now), newest_id + Len(SEED_CARDS),
               now + Len(SEED_CARDS))

\* the turn field before the first turn
NoTurn == Turn("", "none", "", None, "", None, None, None, None, <<>>)

\* the verdict field before the first direct call of the gate
NoVerdict == [called |-> FALSE, text |-> "", mode |-> "general",
              result |-> SafetyResult(TRUE, "", None)]

\* One direct call of a KnowledgeBase method: its name, its argument, what it
\* returned, the table and newest id it found, and the number of connections
\* it had opened that were still open when it returned.
Called(name, arg, ret, table, newest_id, left_open) ==
    [name |-> name, arg |-> arg, ret |-> ret,
     before |-> [rows |-> table, last_id |-> newest_id], open |-> left_open]

\* the call field before the first direct call of a store method
NoCall == Called("none", None, None, <<>>, 0, 0)

\* A method opens a connection with each _conn() and never calls close():
\* `with conn` commits and leaves the connection open. A connection is
\* closed when the interpreter finalises the object, which no statement of
\* the method does: when the call returns, its connections are all still
\* open, or finalisation has run and none is.
Unclosed(opened) == {0, opened}

\* the connections seed_if_empty opens: init_db, the COUNT query, and for a
\* table without rows add_card for each seed card
seed_connections(table) ==
    1 + 1 + (IF Len(table) > 0 THEN 0 ELSE 2 * Len(SEED_CARDS))

\* the connections search opens: none for a query without terms
search_connections(query) == IF CachedTerms(query) = <<>> THEN 0 ELSE 1

\* AppState() and Router(state) on a fresh store: init_db, seed_if_empty
Init ==
    /\ mode = "general"
    /\ short_term_history = <<>>
    /\ capabilities = DefaultCapabilities
    /\ settings \in [max_short_term_memory : 1..MaxCapacity,
                     kb_strong_match_threshold : Thresholds]
    /\ rows = seed_if_empty(<<>>, 0, 0).rows
    /\ last_id = seed_if_empty(<<>>, 0, 0).last_id
    /\ clock = seed_if_empty(<<>>, 0, 0).clock
    /\ collaborator \in Collaborators
    /\ has_api_key \in (IF collaborator.custom THEN {FALSE} ELSE BOOLEAN)
    /\ turn = NoTurn
    /\ turns = 0
    /\ verdict = NoVerdict
    /\ remembered = <<>>
    /\ call = NoCall
    /\ announced = ""

\* the session and store as one record
Session ==
    [mode |-> mode, capabilities |-> capabilities,
     short_term_history |-> short_term_history,
     rows |-> rows, last_id |-> last_id, clock |-> clock]

HasEv(trace, op) == \E i \in 1..Len(trace) : trace[i].op = op

\* The world outside answers only the calls a turn makes: what is typed
\* matters to a turn that prompts, the file system to one that writes, the
\* remote service to one that sends a request.
DefaultExt == [typed |-> CHOOSE t \in TypedCards : TRUE, writable |-> TRUE,
               remote |-> Remote("urlerror", None)]

Exts(trace) ==
    [typed : IF HasEv(trace, "kb.add_card") THEN TypedCards ELSE {DefaultExt.typed},
     writable : IF HasEv(trace, "kb.export_json") THEN BOOLEAN ELSE {DefaultExt.writable},
     remote : IF HasEv(trace, "urlopen") THEN Remotes
              ELSE {DefaultExt.remote}]

\* the mode a turn told the user it set: the one named by the reply
\* "Mode set to <mode>." of a handled command, else the one told before
Announced(t, before) ==
    IF t.kind = "returned" /\ t.command_result # None /\ t.command_result[1].handled
       /\ \E m \in Mode : t.text = "Mode set to " \o m \o "."
    THEN CHOOSE m \in Mode : t.text = "Mode set to " \o m \o "."
    ELSE before

\* the session and store take what a call of Router.route left
Completed(r) ==
    /\ r.st.last_id <= MaxId
    /\ turn' = r.turn
    /\ announced' = Announced(r.turn, announced)
    /\ mode' = r.st.mode
    /\ short_term_history' = r.st.short_term_history
    /\ capabilities' = r.st.capabilities
    /\ rows' = r.st.rows
    /\ last_id' = r.st.last_id
    /\ clock' = r.st.clock

\* One turn of a session of at most `most` turns: Router.route(user_text) runs
\* to completion.
Routing(user_text, most) ==
    /\ turns < most
    /\ \E ext \in Exts(route(user_text, Session, settings, collaborator, has_api_key, DefaultExt).turn.trace) :
          Completed(route(user_text, Session, settings, collaborator, has_api_key, ext))
    /\ turns' = turns + 1
    /\ UNCHANGED <<settings, collaborator, has_api_key, verdict, remembered, call>>

\* One turn of a session of at most MaxTurns turns.
Route(user_text) == Routing(user_text, MaxTurns)

Next == \E user_text \in Inputs : Route(user_text)

Spec == Init /\ [][Next]_vars

\* A direct call gate.evaluate(text, mode), as the tests make it.
Evaluate(text, m) ==
    /\ verdict' = [called |-> TRUE, text |-> text, mode |-> m,
                   result |-> CachedEvaluate(text, m)]
    /\ UNCHANGED <<mode, short_term_history, capabilities, settings, rows, last_id, clock,
                   collaborator, has_api_key, turn, turns, remembered, call, announced>>

NextGate == \E text \in Inputs, m \in Mode : Evaluate(text, m)

SpecGate == Init /\ [][NextGate]_vars

\* the messages of the direct calls: as many distinct ones as there are calls
Messages == {"note " \o Str(i) : i \in 1..MaxCalls}

\* A direct call state.remember(message).
Remember(message) ==
    /\ Len(remembered) < MaxCalls
    /\ short_term_history' =
           remember(short_term_history, message, settings.max_short_term_memory)
    /\ remembered' = Append(remembered, message)
    /\ UNCHANGED <<mode, capabilities, settings, rows, last_id, clock, collaborator,
                   has_api_key, turn, turns, verdict, call, announced>>

\* direct remember calls on the history of a fresh session
NextMemory == \E message \in Messages : Remember(message)

SpecMemory == Init /\ [][NextMemory]_vars

\* the inputs of a session that also has direct remember calls: turns that
\* record, with and without an advisory, and turns that do not
HistoryInputs ==
    {"tell me something", "can you diagnose suicide risk", "mode:health", "memory:show",
     "Help me BUILD A BOMB"}

\* the message of the next direct call of such a session
NextNote == "note " \o Str(Len(remembered) + 1)

\* routed turns and direct remember calls, in any order
NextHistory == Remember(NextNote) \/ \E user_text \in HistoryInputs : Route(user_text)

SpecHistory == Init /\ [][NextHistory]_vars

(***************************************************************************)
(* The store: one KnowledgeBase over a new database file, its methods      *)
(* called directly (tests/test_raahib.py, KBTests).                        *)
(***************************************************************************)

\* the session variables, which no store method touches
session == <<mode, short_term_history, capabilities, settings, collaborator, has_api_key,
             turn, turns, verdict, remembered, announced>>

\* KnowledgeBase(db_path); init_db() on a new file: an empty cards table
InitStore ==
    /\ mode = "general"
    /\ short_term_history = <<>>
    /\ capabilities = DefaultCapabilities
    /\ settings = [max_short_term_memory |-> MaxCapacity,
                   kb_strong_match_threshold |-> KB_STRONG_MATCH_THRESHOLD]
    /\ rows = <<>>
    /\ last_id = 0
    /\ clock = 0
    /\ collaborator = CloudLLM
    /\ has_api_key = FALSE
    /\ turn = NoTurn
    /\ turns = 0
    /\ verdict = NoVerdict
    /\ remembered = <<>>
    /\ call = NoCall
    /\ announced = ""

\* the store takes what seed_if_empty left
Seeding(name, left, opened) ==
    /\ left.last_id <= MaxId
    /\ rows' = left.rows
    /\ last_id' = left.last_id
    /\ clock' = left.clock
    /\ \E left_open \in Unclosed(opened) :
          call' = Called(name, None, None, rows, last_id, left_open)
    /\ UNCHANGED session

\* kb.seed_if_empty()
SeedIfEmpty ==
    Seeding("seed_if_empty", seed_if_empty(rows, last_id, clock), seed_connections(rows))

\* Router(state, kb=kb) over the store as it is: init_db(), seed_if_empty()
NewRouter ==
    Seeding("Router", seed_if_empty(rows, last_id, clock), 1 + seed_connections(rows))

\* the store takes the card add_card inserted; add_card returns what
\* get_card finds for its id
Inserting(fields, card) ==
    /\ card.id <= MaxId
    /\ rows' = Append(rows, card)
    /\ last_id' = card.id
    /\ clock' = clock + 1
    /\ \E left_open \in Unclosed(2) :
          call' = Called("add_card", Some(fields), get_card(Append(rows, card), card.id),
                         rows, last_id, left_open)
    /\ UNCHANGED session

\* kb.add_card(**fields)
AddCard(fields) == Inserting(fields, add_card(rows, fields, last_id, Str(clock)))

\* kb.get_card(card_id)
GetCard(card_id) ==
    /\ \E left_open \in Unclosed(1) :
          call' = Called("get_card", Some(card_id), get_card(rows, card_id), rows, last_id,
                         left_open)
    /\ UNCHANGED <<rows, last_id, clock>>
    /\ UNCHANGED session

\* the store takes the rows the DELETE left; rowcount > 0 is returned
Deleting(card_id, left) ==
    /\ rows' = left
    /\ \E left_open \in Unclosed(1) :
          call' = Called("delete_card", Some(card_id), Some(Len(left) < Len(rows)), rows,
                         last_id, left_open)
    /\ UNCHANGED <<last_id, clock>>
    /\ UNCHANGED session

\* kb.delete_card(card_id)
DeleteCard(card_id) == Deleting(card_id, delete_card(rows, card_id))

NextStore ==
    \/ SeedIfEmpty
    \/ NewRouter
    \/ \E fields \in KnownFields : AddCard(fields)
    \/ \E card_id \in 1..MaxId : GetCard(card_id)
    \/ \E card_id \in 1..MaxId : DeleteCard(card_id)

SpecStore == InitStore /\ [][NextStore]_vars

(***************************************************************************)
(* The search: kb.search called directly on the tables add_card builds     *)
(* (tests/test_raahib.py, test_kb_seed_and_search).                        *)
(***************************************************************************)

\* the most cards a searched table holds
MaxRows == 2

RECURSIVE Filled(_)
\* the table add_card leaves after one call for each field set of fs, on a
\* new database
Filled(fs) ==
    IF fs = <<>> THEN <<>>
    ELSE Append(Filled(SubSeq(fs, 1, Len(fs) - 1)),
                add_card(Filled(SubSeq(fs, 1, Len(fs) - 1)), fs[Len(fs)], Len(fs) - 1,
                         Str(Len(fs) - 1)))

\* the tables a search is made on
Tables == {Filled(fs) : fs \in UNION {[1..n -> SearchFields] : n \in 0..MaxRows}}

\* the values of search's limit parameter
Limits == {0 - 1, 0, 1, DefaultLimit}

\* KnowledgeBase(db_path) after some add_card calls
InitSearch ==
    /\ mode = "general"
    /\ short_term_history = <<>>
    /\ capabilities = DefaultCapabilities
    /\ settings = [max_short_term_memory |-> MaxCapacity,
                   kb_strong_match_threshold |-> KB_STRONG_MATCH_THRESHOLD]
    /\ rows \in Tables
    /\ last_id = Len(rows)
    /\ clock = Len(rows)
    /\ collaborator = CloudLLM
    /\ has_api_key = FALSE
    /\ turn = NoTurn
    /\ turns = 0
    /\ verdict = NoVerdict
    /\ remembered = <<>>
    /\ call = NoCall
    /\ announced = ""

\* search returned hits
Searching(query, limit, hits) ==
    /\ \E left_open \in Unclosed(search_connections(query)) :
          call' = Called("search", Some([query |-> query, limit |-> limit]), Some(hits),
                         rows, last_id, left_open)
    /\ UNCHANGED <<rows, last_id, clock>>
    /\ UNCHANGED session

\* kb.search(query, limit)
Search(query, limit) == Searching(query, limit, search(rows, query, limit))

NextSearch == \E query \in StoreQueries, limit \in Limits : Search(query, limit)

SpecSearch == InitSearch /\ [][NextSearch]_vars

(***************************************************************************)
(* Longer sessions: mode changes with other turns between them, over a     *)
(* store to which one card was added.                                      *)
(***************************************************************************)

\* the lines typed in such a session
ModeInputs ==
    { "mode:mood", "mode:health", "mode:party suicide", "STATUS ", "kb:search patience",
      "tell me something", "i think about suicide", "what disease is sabr",
      "Diagnosis is for doctors", "diagnose me" }

\* the most turns of such a session
ModeTurns == MaxTurns + 1

\* the fields of the card added to the seeded store
DiagnosisCard ==
    CardFields("note", "Diagnosis is for doctors", None,
               Some("See a doctor for a diagnosis."), None, "Notes", "n3", None,
               Some("health"))

\* the seeded store after kb.add_card(**DiagnosisCard)
Extended ==
    Store(Append(seed_if_empty(<<>>, 0, 0).rows,
                 add_card(seed_if_empty(<<>>, 0, 0).rows, DiagnosisCard,
                          seed_if_empty(<<>>, 0, 0).last_id,
                          Str(seed_if_empty(<<>>, 0, 0).clock))),
          seed_if_empty(<<>>, 0, 0).last_id + 1, seed_if_empty(<<>>, 0, 0).clock + 1)

\* AppState(), Router(state) with CloudLLM and no key set, kb.add_card
InitModes ==
    /\ mode = "general"
    /\ short_term_history = <<>>
    /\ capabilities = DefaultCapabilities
    /\ settings \in [max_short_term_memory : {MaxCapacity},
                     kb_strong_match_threshold : Thresholds]
    /\ rows = Extended.rows
    /\ last_id = Extended.last_id
    /\ clock = Extended.clock
    /\ collaborator = CloudLLM
    /\ has_api_key = FALSE
    /\ turn = NoTurn
    /\ turns = 0
    /\ verdict = NoVerdict
    /\ remembered = <<>>
    /\ call = NoCall
    /\ announced = ""

NextModes == \E user_text \in ModeInputs : Routing(user_text, ModeTurns)

SpecModes == InitModes /\ [][NextModes]_vars

(***************************************************************************)
(* The routing contract                                                    *)
(***************************************************************************)

\* the text carries a phrase of the disallowed-request set, case-insensitively
Disallowed(text) == ContainsAny(Lower(text), DISALLOWED_REQUEST_KEYWORDS)

\* the text carries a crisis phrase, case-insensitively
Crisis(text) == ContainsAny(Lower(text), CRISIS_KEYWORDS)

\* the text carries a diagnosis term, case-insensitively
Diagnosis(text) == ContainsAny(Lower(text), HEALTH_DIAGNOSIS_TERMS)

\* the emergency-service guidance of the crisis message
EmergencyGuidance == "call local emergency services"

\* the call at position i of the trace comes after the gate's evaluation of text
GateBefore(trace, i, text) ==
    \E j \in 1..(i - 1) : trace[j] = Ev("safety.evaluate", text)

\* some hit of the search meets the configured threshold
SomeStrong(hits, threshold) ==
    \E i \in 1..Len(hits) : FracLeq(Frac(threshold, 100), hits[i].score)

\* C1: for every input the Command Interpreter reports as handled, whatever
\* else the input carries, Router.route returns the interpreter's output and
\* metadata, of type command, and the turn makes no generation call.
C1_CommandPrecedence ==
    (turn.command_result # None /\ turn.command_result[1].handled) =>
        /\ turn.kind = "returned"
        /\ turn.text = turn.command_result[1].output
        /\ turn.metadata = turn.command_result[1].metadata
        /\ turn.metadata[1].type = "command"
        /\ ~HasEv(turn.trace, "llm.generate")

\* a handled command that carries a disallowed phrase
C1_Witness ==
    /\ turn.user_text = "kb:search build a bomb"
    /\ turn.command_result # None /\ turn.command_result[1].handled
    /\ turn.metadata[1].type = "command"

\* C2: for every input the command stage does not handle and for which the
\* gate returns allowed=false, Router.route returns exactly the gate's message
\* and metadata, makes no knowledge search and no generation call, and leaves
\* the session history as it was.
C2_SafetyShortCircuit ==
    [][ ( /\ turn'.command_result # None
          /\ ~turn'.command_result[1].handled
          /\ ~CachedEvaluate(turn'.user_text, mode).allowed )
        => ( /\ turn'.kind = "returned"
             /\ turn'.text = CachedEvaluate(turn'.user_text, mode).message
             /\ turn'.metadata = CachedEvaluate(turn'.user_text, mode).metadata
             /\ ~HasEv(turn'.trace, "kb.search")
             /\ ~HasEv(turn'.trace, "llm.generate")
             /\ short_term_history' = short_term_history ) ]_vars

\* a refused turn in a session whose history already holds entries
C2_Witness ==
    /\ turn.safety_result # None /\ ~turn.safety_result[1].allowed
    /\ turn.text = RefusalMessage
    /\ short_term_history # <<>>

\* C3 as stated: in every turn, every knowledge search and every generation
\* call comes after the gate's evaluation of the input, the turns of a
\* kb:search command included.
C3_GateBeforeEveryLookup ==
    \A i \in 1..Len(turn.trace) :
        turn.trace[i].op \in {"kb.search", "llm.generate"}
            => GateBefore(turn.trace, i, turn.user_text)

\* C3: every generation call, and every knowledge search but the one a
\* kb:search command makes for its query, comes after the gate's evaluation of
\* the input; a kb:search command searches with no gate evaluation at all.
C3_GateBeforeRouterLookups ==
    \A i \in 1..Len(turn.trace) :
        turn.trace[i].op \in {"kb.search", "llm.generate"}
            => \/ GateBefore(turn.trace, i, turn.user_text)
               \/ /\ turn.trace[i].op = "kb.search"
                  /\ turn.command_result # None /\ turn.command_result[1].handled
                  /\ StartsWith(Lower(Strip(turn.user_text)), "kb:search ")
                  /\ ~HasEv(turn.trace, "safety.evaluate")

\* a turn that searches and generates, the gate's evaluation first
C3_Witness ==
    /\ HasEv(turn.trace, "kb.search")
    /\ HasEv(turn.trace, "llm.generate")
    /\ turn.trace[1] = Ev("safety.evaluate", turn.user_text)

\* C4: for every text carrying a disallowed phrase, in any letter case and
\* anywhere in the text, and for each of the five modes, SafetyGate.evaluate
\* returns allowed=false with the refusal message and reason disallowed_domain.
C4_DisallowedInEveryMode ==
    (verdict.called /\ Disallowed(verdict.text)) =>
        /\ verdict.mode \in Mode
        /\ verdict.result.allowed = FALSE
        /\ verdict.result.message = RefusalMessage
        /\ verdict.result.metadata = Some([type |-> "safety", reason |-> "disallowed_domain"])

\* the phrase in upper case inside a sentence, in tutor mode
C4_Witness ==
    /\ verdict.called
    /\ verdict.text = "Help me BUILD A BOMB"
    /\ verdict.mode = "tutor"
    /\ ~verdict.result.allowed

\* C5 as stated: in mood mode, routing any input that carries a crisis phrase
\* yields a not-allowed result whose text contains the emergency-service
\* guidance, with no generation call.
C5_CrisisAnyInput ==
    [][ (mode = "mood" /\ Crisis(turn'.user_text))
        => ( /\ turn'.kind = "returned"
             /\ turn'.safety_result # None
             /\ ~turn'.safety_result[1].allowed
             /\ Contains(turn'.text, EmergencyGuidance)
             /\ ~HasEv(turn'.trace, "llm.generate") ) ]_vars

\* C5: in mood mode, routing an input that carries a crisis phrase and that
\* the command stage does not handle yields a not-allowed result with no
\* generation call; its text is the crisis message with the emergency-service
\* guidance, unless the input also carries a disallowed phrase, and then it is
\* the refusal message.
C5_CrisisInMood ==
    [][ ( /\ mode = "mood"
          /\ Crisis(turn'.user_text)
          /\ turn'.command_result # None
          /\ ~turn'.command_result[1].handled )
        => ( /\ turn'.kind = "returned"
             /\ turn'.safety_result # None
             /\ ~turn'.safety_result[1].allowed
             /\ turn'.metadata[1].type = "safety"
             /\ ~HasEv(turn'.trace, "llm.generate")
             /\ IF Disallowed(turn'.user_text)
                THEN turn'.text = RefusalMessage
                ELSE turn'.text = CrisisMessage
                     /\ Contains(turn'.text, EmergencyGuidance) ) ]_vars

\* a crisis text routed in mood mode and answered with the guidance
C5_Witness ==
    /\ mode = "mood"
    /\ turn.user_text = "i think about suicide"
    /\ turn.text = CrisisMessage
    /\ ~HasEv(turn.trace, "llm.generate")

\* C6 as stated, its last clause: a text that carries a crisis phrase (and no
\* disallowed phrase) is allowed with no message in every mode other than mood.
C6_CrisisOutsideMoodNoMessage ==
    (verdict.called /\ Crisis(verdict.text) /\ ~Disallowed(verdict.text)
     /\ verdict.mode # "mood") =>
        (verdict.result.allowed /\ verdict.result.message = "")

\* C6: SafetyGate.evaluate applies its checks in a fixed order and the first
\* match wins: a disallowed phrase gives disallowed_domain in any mode; else a
\* crisis phrase in mood mode gives crisis_guidance; else a diagnosis term in
\* health mode gives allowed=true with the disclaimer and health_disclaimer;
\* else allowed=true with no message. So a crisis phrase outside mood mode is
\* allowed with no message only where neither of the other checks matches.
C6_GateOrder ==
    verdict.called =>
        verdict.result =
            IF Disallowed(verdict.text)
            THEN SafetyResult(FALSE, RefusalMessage,
                              Some([type |-> "safety", reason |-> "disallowed_domain"]))
            ELSE IF verdict.mode = "mood" /\ Crisis(verdict.text)
            THEN SafetyResult(FALSE, CrisisMessage,
                              Some([type |-> "safety", reason |-> "crisis_guidance"]))
            ELSE IF verdict.mode = "health" /\ Diagnosis(verdict.text)
            THEN SafetyResult(TRUE, DisclaimerMessage,
                              Some([type |-> "safety", reason |-> "health_disclaimer"]))
            ELSE SafetyResult(TRUE, "", None)

\* a text with a disallowed and a crisis phrase, evaluated in mood mode
C6_Witness ==
    /\ verdict.called
    /\ verdict.mode = "mood"
    /\ Disallowed(verdict.text) /\ Crisis(verdict.text)
    /\ verdict.result.metadata = Some([type |-> "safety", reason |-> "disallowed_domain"])

\* C7: for every input that passes the command and safety stages, if the
\* search yields a hit whose score is at least the configured threshold, the
\* threshold itself included, Router.route returns a result of type kb whose
\* card_id and score are those of a highest-scoring hit and whose text is
\* rendered from that card, and the turn makes no generation call.
C7_StrongMatch ==
    (turn.hits # None /\ SomeStrong(turn.hits[1], settings.kb_strong_match_threshold)) =>
        /\ turn.kind = "returned"
        /\ turn.metadata[1].type = "kb"
        /\ ~HasEv(turn.trace, "llm.generate")
        /\ \E j \in 1..Len(turn.hits[1]) :
              /\ \A k \in 1..Len(turn.hits[1]) :
                    FracLeq(turn.hits[1][k].score, turn.hits[1][j].score)
              /\ turn.metadata[1].card_id = Str(turn.hits[1][j].card.id)
              /\ turn.metadata[1].score = FormatScore(turn.hits[1][j].score)
              /\ turn.text = RenderCard(turn.hits[1][j].card)

\* a knowledge reply for a top score equal to the configured threshold
C7_Witness ==
    /\ turn.hits # None /\ turn.hits[1] # <<>>
    /\ turn.metadata # None /\ turn.metadata[1].type = "kb"
    /\ FracEq(TopHit(turn.hits[1]).score, Frac(settings.kb_strong_match_threshold, 100))

\* C8: for every input that passes the command and safety stages, has no
\* strong knowledge match and carries a domain trigger term, Router.route
\* returns the sourced-entry miss reply with type kb_miss, and the turn makes no
\* generation call.
C8_PrecisionGuard ==
    ( /\ turn.hits # None
      /\ ~SomeStrong(turn.hits[1], settings.kb_strong_match_threshold)
      /\ ContainsAny(Lower(turn.user_text), ISLAMIC_KEYWORDS) ) =>
        /\ turn.kind = "returned"
        /\ turn.text = KbMissText
        /\ turn.metadata = Some([type |-> "kb_miss"])
        /\ ~HasEv(turn.trace, "llm.generate")

\* a trigger term with a weak hit only
C8_Witness ==
    /\ turn.user_text = "fiqh of futures"
    /\ turn.hits # None /\ turn.hits[1] # <<>>
    /\ turn.metadata = Some([type |-> "kb_miss"])

\* C9 as stated: in the generation stage the returned text is the advisory
\* message followed by the generated text when the verdict carries a message,
\* and the generated text unchanged when it carries none.
C9_AdvisoryThenGenerated ==
    turn.llm # None =>
        turn.text = IF turn.safety_result[1].message # ""
                    THEN turn.safety_result[1].message \o " " \o turn.llm[1].text
                    ELSE turn.llm[1].text

\* C9: in the generation stage, when the verdict carries an advisory message
\* the returned text is that message, one space, and the generated text with
\* its trailing whitespace removed; when it carries none the returned text is
\* the generated text unchanged.
C9_AdvisoryPrepended ==
    turn.llm # None =>
        turn.text = IF turn.safety_result[1].message = "" THEN turn.llm[1].text
                    ELSE IF RStrip(turn.llm[1].text) = "" THEN turn.safety_result[1].message
                    ELSE turn.safety_result[1].message \o " " \o RStrip(turn.llm[1].text)

\* a generated reply that ends with a line break, under the health disclaimer
C9_Witness ==
    /\ turn.llm # None
    /\ turn.safety_result[1].message = DisclaimerMessage
    /\ turn.llm[1].text # RStrip(turn.llm[1].text)
    /\ turn.metadata[1].type = "llm"

\* C10 as stated: every turn that reaches the generation stage records the
\* query and then the returned text; after the turn the newest history entry
\* is the response and, for a capacity of at least 2, the one before it is the
\* query.
C10_GenerationRecorded ==
    HasEv(turn.trace, "llm.generate") =>
        /\ short_term_history # <<>>
        /\ short_term_history[Len(short_term_history)] = AssistantTag \o turn.text
        /\ settings.max_short_term_memory >= 2 =>
              /\ Len(short_term_history) >= 2
              /\ short_term_history[Len(short_term_history) - 1] = UserTag \o turn.user_text

(***************************************************************************)
(* The session history                                                     *)
(***************************************************************************)

\* the last n entries of seq, for n >= 0
LastN(seq, n) == SubSeq(seq, IF Len(seq) > n THEN Len(seq) - n + 1 ELSE 1, Len(seq))

\* the messages of the remember calls of a trace, in call order
RememberedIn(trace) ==
    LET calls == SelectSeq(trace, LAMBDA e : e.op = "remember")
    IN  [i \in 1..Len(calls) |-> calls[i].arg]

\* seq is what is left of whole after entries are dropped from its front
IsSuffix(seq, whole) ==
    \E d \in 0..Len(whole) : seq = SubSeq(whole, d + 1, Len(whole))

\* C11: in every state reachable by routed turns and remember calls in any
\* order, the history is no longer than max_short_term_memory, and each step
\* leaves the old entries followed by the messages it remembered, less entries
\* dropped from the front: the entries that remain keep their order.
C11_HistoryBound ==
    /\ [](Len(short_term_history) <= settings.max_short_term_memory)
    /\ [][ IsSuffix(short_term_history',
                    short_term_history
                    \o (IF remembered' # remembered
                        THEN <<remembered'[Len(remembered')]>>
                        ELSE RememberedIn(turn'.trace))) ]_vars

\* a full history holding the entries of a routed turn and of a direct call,
\* an older entry evicted
C11_Witness ==
    /\ Len(short_term_history) = settings.max_short_term_memory
    /\ Len(short_term_history) >= 2
    /\ remembered # <<>>
    /\ short_term_history[Len(short_term_history)] = remembered[Len(remembered)]
    /\ short_term_history[Len(short_term_history) - 1] = AssistantTag \o turn.text
    /\ HasEv(turn.trace, "remember")

\* C12: after k remember calls on an initially empty history of capacity N
\* the history is the last min(k, N) messages in call order; after N + 1
\* calls with distinct messages the first message is absent and the last one
\* is present.
C12_FifoEviction ==
    (turns = 0) =>
        /\ short_term_history = LastN(remembered, settings.max_short_term_memory)
        /\ ( /\ Len(remembered) = settings.max_short_term_memory + 1
             /\ \A i, j \in 1..Len(remembered) : i # j => remembered[i] # remembered[j] )
           => /\ \A i \in 1..Len(short_term_history) :
                    short_term_history[i] # remembered[1]
              /\ \E i \in 1..Len(short_term_history) :
                    short_term_history[i] = remembered[Len(remembered)]

\* capacity + 1 calls with distinct messages, no routed turn
C12_Witness ==
    /\ turns = 0
    /\ Len(remembered) = settings.max_short_term_memory + 1
    /\ \A i, j \in 1..Len(remembered) : i # j => remembered[i] # remembered[j]
    /\ Len(short_term_history) = settings.max_short_term_memory

(***************************************************************************)
(* Results and failures                                                    *)
(***************************************************************************)

\* the values of the type discriminator
ResultTypes == {"command", "safety", "kb", "kb_miss", "llm"}

\* what the remote did with the request of the turn
UrlopenKinds(trace) == {trace[i].arg : i \in {j \in 1..Len(trace) : trace[j].op = "urlopen"}}

\* C13 as stated: every routed turn returns metadata whose type is one of
\* command, safety, kb, kb_miss, llm; a turn of the generation stage returns
\* type=llm together with every key of the collaborator's own metadata.
C13_TypeAlways ==
    turn.kind # "none" =>
        /\ turn.kind = "returned"
        /\ turn.metadata # None
        /\ "type" \in DOMAIN turn.metadata[1]
        /\ turn.metadata[1].type \in ResultTypes
        /\ HasEv(turn.trace, "llm.generate") =>
              /\ turn.metadata[1].type = "llm"
              /\ turn.llm # None
              /\ \A k \in DOMAIN turn.llm[1].meta \ {"type"} :
                    /\ k \in DOMAIN turn.metadata[1]
                    /\ turn.metadata[1][k] = turn.llm[1].meta[k]

\* C14 as stated: Router.route never raises; every turn ends by returning a
\* text and metadata.
C14_NeverRaises == turn.kind # "raised"

\* C15 as stated: CloudLLM.generate never raises; it returns an offline
\* result with reason missing_api_key when no key is set, network_error when
\* the transport fails or the call times out, empty_output when the reply has
\* no usable text.
C15_GenerateNeverRaises ==
    (HasEv(turn.trace, "llm.generate") /\ ~collaborator.custom) =>
        /\ turn.kind = "returned"
        /\ turn.llm # None
        /\ ~has_api_key =>
              turn.llm[1].meta = [provider |-> "offline", reason |-> "missing_api_key"]
        /\ UrlopenKinds(turn.trace) \cap {"urlerror", "timeout"} # {} =>
              turn.llm[1].meta = [provider |-> "offline", reason |-> "network_error"]
        /\ (UrlopenKinds(turn.trace) = {"reply"} /\ turn.llm[1].meta.provider = "offline") =>
              turn.llm[1].meta = [provider |-> "offline", reason |-> "empty_output"]

\* C16: with CloudLLM and no key set, a turn whose input is no command, is
\* allowed by the gate, has no strong knowledge match and carries no trigger
\* term returns metadata type=llm, provider=offline, reason=missing_api_key,
\* and the text of the offline fallback.
C16_OfflineFallback ==
    ( /\ ~collaborator.custom /\ ~has_api_key
      /\ turn.command_result # None /\ ~turn.command_result[1].handled
      /\ turn.safety_result # None /\ turn.safety_result[1].allowed
      /\ turn.hits # None
      /\ ~SomeStrong(turn.hits[1], settings.kb_strong_match_threshold)
      /\ ~ContainsAny(Lower(turn.user_text), ISLAMIC_KEYWORDS) ) =>
        /\ turn.kind = "returned"
        /\ turn.metadata =
               Some([type |-> "llm", provider |-> "offline", reason |-> "missing_api_key"])
        /\ Contains(turn.text, "Offline fallback")

\* an unmatched query routed with no key set
C16_Witness ==
    /\ ~collaborator.custom /\ ~has_api_key
    /\ turn.user_text = "tell me something"
    /\ turn.hits = Some(<<>>)
    /\ turn.metadata[1].reason = "missing_api_key"

(***************************************************************************)
(* The store contract                                                      *)
(***************************************************************************)

\* the fields add_card requires
RequiredEmpty(fields) ==
    fields.type = "" \/ fields.title = "" \/ fields.source_name = "" \/ fields.reference = ""

\* the ids of the rows of a table
Ids(table) == {table[i].id : i \in 1..Len(table)}

\* C17 as stated: add_card with an empty type, title, source name or
\* reference fails: it returns no card, stores none and consumes no id.
C17_AddCardValidates ==
    (call.name = "add_card" /\ RequiredEmpty(call.arg[1])) =>
        /\ call.ret = None
        /\ rows = call.before.rows
        /\ last_id = call.before.last_id

\* C18: add_card followed by get_card(id) returns a card equal in every
\* field to what was inserted; delete_card(id) of a stored card returns true,
\* and get_card(id) then finds nothing; delete_card(id) of an id no card has
\* returns false and changes nothing.
C18_RoundTrip ==
    /\ call.name = "add_card" =>
          /\ call.ret # None
          /\ FieldsOf(call.ret[1]) = call.arg[1]
          /\ get_card(rows, call.ret[1].id) = call.ret
          /\ call.ret[1].id \notin Ids(call.before.rows)
    /\ call.name = "delete_card" =>
          /\ call.ret[1] = (get_card(call.before.rows, call.arg[1]) # None)
          /\ get_card(rows, call.arg[1]) = None
          /\ rows = SelectSeq(call.before.rows, LAMBDA r : r.id # call.arg[1])
          /\ ~call.ret[1] => rows = call.before.rows
          /\ last_id = call.before.last_id
    /\ call.name = "get_card" =>
          /\ rows = call.before.rows
          /\ call.ret # None => (call.ret[1].id = call.arg[1] /\ call.ret[1] \in {rows[i] : i \in 1..Len(rows)})
          /\ call.ret = None => call.arg[1] \notin Ids(rows)

\* a second delete_card of an id that was assigned: false, the other card
\* still stored
C18_Witness ==
    /\ call.name = "delete_card"
    /\ call.ret = Some(FALSE)
    /\ call.arg[1] <= last_id
    /\ rows # <<>>
    /\ rows = call.before.rows

\* C19: the ids of the stored cards are pairwise distinct; each add_card
\* gives an id greater than every id assigned before it (last_id is the
\* greatest of them, and never decreases), so no id is assigned again after
\* its card was deleted.
C19_IdentifierDiscipline ==
    /\ [](/\ \A i, j \in 1..Len(rows) : i # j => rows[i].id # rows[j].id
          /\ \A i \in 1..Len(rows) : rows[i].id <= last_id)
    /\ [][ /\ last_id' >= last_id
           /\ \A i \in 1..Len(rows') :
                 rows'[i] \notin {rows[k] : k \in 1..Len(rows)} =>
                     (rows'[i].id > last_id /\ rows'[i].id <= last_id') ]_vars

\* a card added to a store made empty by deletes: its id is above every id
\* assigned before
C19_Witness ==
    /\ call.name = "add_card"
    /\ call.before.rows = <<>>
    /\ call.before.last_id >= 2
    /\ call.ret[1].id = call.before.last_id + 1

\* C20: seed_if_empty, called directly or by the construction of a Router,
\* leaves a store that holds a card as it is; on an empty store it inserts
\* the seed cards, each once and in order; a further call changes nothing.
C20_SeedIdempotent ==
    call.name \in {"seed_if_empty", "Router"} =>
        /\ IF call.before.rows # <<>>
           THEN rows = call.before.rows /\ last_id = call.before.last_id
           ELSE /\ Len(rows) = Len(SEED_CARDS)
                /\ \A i \in 1..Len(rows) : FieldsOf(rows[i]) = SEED_CARDS[i]
        /\ seed_if_empty(rows, last_id, clock) = Store(rows, last_id, clock)

\* a Router built over a store that holds one card, not a seed card
C20_Witness ==
    /\ call.name = "Router"
    /\ Len(call.before.rows) = 1
    /\ FieldsOf(call.before.rows[1]) \notin {SEED_CARDS[i] : i \in 1..Len(SEED_CARDS)}
    /\ rows = call.before.rows

(***************************************************************************)
(* The search contract                                                     *)
(***************************************************************************)

\* the query and the limit of the last direct call of search
Query == call.arg[1].query

Limit == call.arg[1].limit

\* the hits the last direct call of search returned
Hits == call.ret[1]

\* s holds no character but whitespace
Blank(s) == \A i \in 1..Len(s) : CharAt(s, i) \in Whitespace

\* the positions of the hits that are for card
HitsFor(hits, card) == {i \in 1..Len(hits) : hits[i].card = card}

\* C21: for every query with zero non-empty tokens (the empty string or
\* whitespace only) and every store content, search returns an empty result;
\* the call returns, it raises nothing.
C21_NoTokensNoHits ==
    (call.name = "search" /\ Blank(Query)) => call.ret = Some(<<>>)

\* a search for a whitespace query on a table that holds cards, one of them
\* with that very title
C21_Witness ==
    /\ call.name = "search"
    /\ Query = "  "
    /\ \E i \in 1..Len(call.before.rows) : call.before.rows[i].title = Query
    /\ call.ret = Some(<<>>)

\* the score of card for the terms of query before the boost, as a fraction
Unboosted(card, query) ==
    Normalized(RawScore(card, SearchTerms(query)), MaxPerTerm * Len(SearchTerms(query)))

\* the larger of two fractions
FracMax(a, b) == IF FracLess(a, b) THEN b ELSE a

\* C22 as stated: for every stored card and a query equal to that card's exact
\* title, search returns that card with a score of at least 0.9 (seen where
\* the limit cuts nothing off).
C22_ExactTitle ==
    (call.name = "search" /\ Limit >= Len(call.before.rows)) =>
        \A i \in 1..Len(call.before.rows) :
            call.before.rows[i].title = Query =>
                /\ HitsFor(Hits, call.before.rows[i]) # {}
                /\ \A h \in HitsFor(Hits, call.before.rows[i]) :
                       FracLeq(Frac(TitleBoost, 100), Hits[h].score)

\* C22, amended: for every stored card whose title holds at least one token
\* and a query equal to that title, search returns the card with a score of
\* at least 0.9; and whenever the query holds a token and the trimmed
\* lower-cased query is a substring of a card's lower-cased title, the card is
\* returned with the score max(normalized score, 0.9), never lower than the
\* unboosted score (seen where the limit cuts nothing off).
C22_TitleBoost ==
    (call.name = "search" /\ Limit >= Len(call.before.rows) /\ ~Blank(Query)) =>
        \A i \in 1..Len(call.before.rows) :
            /\ call.before.rows[i].title = Query =>
                   /\ HitsFor(Hits, call.before.rows[i]) # {}
                   /\ \A h \in HitsFor(Hits, call.before.rows[i]) :
                          FracLeq(Frac(TitleBoost, 100), Hits[h].score)
            /\ Contains(Lower(call.before.rows[i].title), Strip(Lower(Query))) =>
                   /\ HitsFor(Hits, call.before.rows[i]) # {}
                   /\ \A h \in HitsFor(Hits, call.before.rows[i]) :
                          /\ FracEq(Hits[h].score,
                                    FracMax(Unboosted(call.before.rows[i], Query),
                                            Frac(TitleBoost, 100)))
                          /\ FracLeq(Unboosted(call.before.rows[i], Query), Hits[h].score)

\* a search for the exact title of a stored card whose unboosted score is
\* under 0.9, and one for a query, not trimmed and in another case, that the
\* title holds
C22_Witness ==
    /\ call.name = "search"
    /\ Limit >= Len(call.before.rows)
    /\ Query \in {"Patience at first strike", " dua for CALM "}
    /\ \E h \in 1..Len(Hits) :
           /\ Contains(Lower(Hits[h].card.title), Strip(Lower(Query)))
           /\ FracLess(Unboosted(Hits[h].card, Query), Frac(TitleBoost, 100))
           /\ FracEq(Hits[h].score, Frac(TitleBoost, 100))

\* the seven fields of a card that are searched, each with its weight; an
\* absent optional field is the empty text
Weighted(card) ==
    << [text |-> card.title, weight |-> 4],
       [text |-> OrEmpty(card.tags), weight |-> 3],
       [text |-> OrEmpty(card.arabic), weight |-> 2],
       [text |-> OrEmpty(card.translation_en), weight |-> 2],
       [text |-> OrEmpty(card.explanation), weight |-> 1],
       [text |-> card.source_name, weight |-> 1],
       [text |-> card.reference, weight |-> 1] >>

RECURSIVE SumTo(_, _)
\* f[1] + ... + f[n]
SumTo(f, n) == IF n = 0 THEN 0 ELSE SumTo(f, n - 1) + f[n]

\* what one occurrence of token adds for card
TokenRaw(card, token) ==
    SumTo([k \in 1..7 |-> IF Contains(Lower(Weighted(card)[k].text), token)
                             THEN Weighted(card)[k].weight ELSE 0], 7)

\* raw: the sum over the token occurrences of the query
Raw(card, tokens) == SumTo([i \in 1..Len(tokens) |-> TokenRaw(card, tokens[i])], Len(tokens))

\* min(1, raw / (14 * n)) as a fraction
Formula(raw, n) == IF raw >= 14 * n THEN Frac(1, 1) ELSE Frac(raw, 14 * n)

\* the score the formula and the title boost give card for query
Expected(card, query) ==
    IF Contains(Lower(card.title), Strip(Lower(query)))
    THEN FracMax(Formula(Raw(card, SearchTerms(query)), Len(SearchTerms(query))),
                 Frac(TitleBoost, 100))
    ELSE Formula(Raw(card, SearchTerms(query)), Len(SearchTerms(query)))

\* C26: for a query with n >= 1 tokens a card's unboosted score is
\* min(1, raw / (14 * n)), raw adding for each token occurrence of the query
\* (a repeated token counted each time) and each of the seven fields whose
\* lower-cased text contains the token that field's weight (4, 3, 2, 2, 1, 1,
\* 1; an absent optional field contains no token). Every returned hit has
\* 0 < score <= 1 and its score is the (boosted) formula's; where the limit
\* cuts nothing off, the cards returned are exactly those of non-zero score.
C26_ScoreFormula ==
    (call.name = "search" /\ ~Blank(Query)) =>
        /\ \A h \in 1..Len(Hits) :
               /\ Hits[h].score.num > 0
               /\ FracLeq(Hits[h].score, Frac(1, 1))
               /\ FracEq(Hits[h].score, Expected(Hits[h].card, Query))
               /\ Raw(Hits[h].card, SearchTerms(Query)) > 0
               /\ \E i \in 1..Len(call.before.rows) : call.before.rows[i] = Hits[h].card
        /\ Limit >= Len(call.before.rows) =>
               \A i \in 1..Len(call.before.rows) :
                   Raw(call.before.rows[i], SearchTerms(Query)) > 0
                       <=> HitsFor(Hits, call.before.rows[i]) # {}

\* a search for a query that repeats a token, on a table with a card the
\* token is in, returned with a score under 1 and not boosted, and a card of
\* score 0, not returned
C26_Witness ==
    /\ call.name = "search"
    /\ Query = "PATIENCE patience"
    /\ Limit >= Len(call.before.rows)
    /\ \E h \in 1..Len(Hits) :
           /\ FracLess(Hits[h].score, Frac(TitleBoost, 100))
           /\ FracEq(Hits[h].score, Frac(2 * TokenRaw(Hits[h].card, "patience"), 14 * 2))
    /\ \E i \in 1..Len(call.before.rows) :
           /\ Raw(call.before.rows[i], SearchTerms(Query)) = 0
           /\ HitsFor(Hits, call.before.rows[i]) = {}

\* the position in table of the row that is card
RowOf(table, card) == CHOOSE i \in 1..Len(table) : table[i] = card

\* the full ranked list of the last direct call of search: what search
\* returns for the same table and query when the limit cuts nothing off
Ranked == search(call.before.rows, Query, Len(call.before.rows))

\* the first n entries of seq, none for n <= 0, all of them for n >= Len(seq)
FirstN(seq, n) == SubSeq(seq, 1, IF n < 0 THEN 0 ELSE IF n > Len(seq) THEN Len(seq) ELSE n)

\* C27: the hits search returns are in non-increasing score order, hits of
\* equal score keep the order of their rows in the table, and the result is
\* exactly the first `limit` entries of the full ranked list, so it never has
\* more than `limit` entries, for any limit value passed.
C27_Ranking ==
    call.name = "search" =>
        /\ \A h \in 1..(Len(Hits) - 1) :
               /\ FracLeq(Hits[h + 1].score, Hits[h].score)
               /\ FracEq(Hits[h + 1].score, Hits[h].score) =>
                      RowOf(call.before.rows, Hits[h].card)
                          < RowOf(call.before.rows, Hits[h + 1].card)
        /\ Hits = FirstN(Ranked, Limit)
        /\ Len(Hits) <= Limit

(***************************************************************************)
(* The mode and the commands                                               *)
(***************************************************************************)

\* the five modes of the registry
Registry == {"general", "tutor", "focus", "health", "mood"}

\* text is a mode:<name> command
IsModeCommand(text) == StartsWith(Lower(Strip(text)), "mode:")

\* the name a mode:<name> command gives, trimmed and lower-cased
NamedMode(text) == Lower(Strip(AfterFirst(Strip(text), ":")))

\* the step is one turn of the loop
IsTurn == turns' = turns + 1

\* C23: a mode:<name> command whose name is not in the registry is reported
\* as handled=true with success=false and the list of allowed values, and
\* leaves the session mode, history and capability flags unchanged.
C23_InvalidModeRejected ==
    [][(IsTurn /\ IsModeCommand(turn'.user_text) /\ NamedMode(turn'.user_text) \notin Registry) =>
           /\ turn'.kind = "returned"
           /\ turn'.command_result # None
           /\ turn'.command_result[1].handled
           /\ turn'.metadata[1].type = "command"
           /\ turn'.metadata[1].success = "false"
           /\ \A m \in Registry : Contains(turn'.text, m)
           /\ mode' = mode
           /\ short_term_history' = short_term_history
           /\ capabilities' = capabilities]_vars

\* a turn with an unknown mode name, in a session whose mode a turn before
\* it had changed
C23_Witness ==
    /\ turns = 2
    /\ IsModeCommand(turn.user_text)
    /\ NamedMode(turn.user_text) \notin Registry
    /\ turn.metadata[1].success = "false"
    /\ mode = "mood"

\* C24: the session always has one active mode, one of general, tutor,
\* focus, health, mood; a turn whose input is a mode:<name> command naming a
\* mode of the registry leaves the mode equal to the named one, and every
\* other turn, and every other step, leaves the mode unchanged.
C24_ModeLifecycle ==
    /\ [](mode \in Registry)
    /\ [][IF IsTurn /\ IsModeCommand(turn'.user_text) /\ NamedMode(turn'.user_text) \in Registry
          THEN mode' = NamedMode(turn'.user_text)
          ELSE mode' = mode]_vars

\* a mode command that changed the mode, then a turn of another kind that
\* kept it
C24_Witness ==
    /\ turns = 2
    /\ mode = "health"
    /\ ~IsModeCommand(turn.user_text)
    /\ turn.kind = "returned"
    /\ turn.metadata[1].type \in {"safety", "kb", "llm"}

\* text is a kb:show or a kb:delete command
IsShowOrDelete(text) ==
    \/ StartsWith(Lower(Strip(text)), "kb:show ")
    \/ StartsWith(Lower(Strip(text)), "kb:delete ")

\* the argument of a kb:show or kb:delete command
IdText(text) == Strip(AfterFirst(Strip(text), " "))

\* the argument is no integer, or an integer that is the id of no row of table
BadId(text, table) ==
    \/ ~IsSigned(IdText(text))
    \/ OutOfInt64(IdText(text))
    \/ \A i \in 1..Len(table) : table[i].id # ParseInt(IdText(text))[1]

\* C25: kb:show and kb:delete with an argument that is not an integer, or
\* with an integer id that no stored card has, are reported as handled=true
\* with success=false, raise nothing, and leave the store unchanged.
C25_BadIdHandled ==
    [][(IsTurn /\ IsShowOrDelete(turn'.user_text) /\ BadId(turn'.user_text, rows)) =>
           /\ turn'.kind = "returned"
           /\ turn'.command_result # None
           /\ turn'.command_result[1].handled
           /\ turn'.metadata[1].success = "false"
           /\ rows' = rows
           /\ last_id' = last_id]_vars

(***************************************************************************)
(* The stages of a turn                                                    *)
(***************************************************************************)

\* the number of events of trace that are calls of op
Calls(trace, op) == Cardinality({i \in 1..Len(trace) : trace[i].op = op})

\* C29: the session history changes only in turns that reach the generation
\* stage; a turn whose result type is command, kb or kb_miss leaves the
\* history sequence exactly as it was.
C29_HistoryFrame ==
    [][IsTurn =>
           /\ short_term_history' # short_term_history => Calls(turn'.trace, "llm.generate") > 0
           /\ (turn'.kind = "returned" /\ turn'.metadata[1].type \in {"command", "kb", "kb_miss"})
                  => short_term_history' = short_term_history]_vars

\* the stage that produced the result of a turn that returned
Producer(t) ==
    IF t.command_result[1].handled THEN "command"
    ELSE IF ~t.safety_result[1].allowed THEN "safety"
    ELSE IF t.llm = None THEN "knowledge"
    ELSE "generation"

\* the stages that ran in a turn: the command stage always, the safety stage
\* if the gate gave a verdict, the knowledge stage if the router searched, the
\* generation stage if the collaborator was called
Ran(t) ==
    {"command"}
    \cup (IF t.safety_result # None \/ Calls(t.trace, "safety.evaluate") > 0
          THEN {"safety"} ELSE {})
    \cup (IF t.hits # None THEN {"knowledge"} ELSE {})
    \cup (IF t.llm # None \/ Calls(t.trace, "llm.generate") > 0 THEN {"generation"} ELSE {})

\* the stages after stage
Later(stage) ==
    CASE stage = "command" -> {"safety", "knowledge", "generation"}
      [] stage = "safety" -> {"knowledge", "generation"}
      [] stage = "knowledge" -> {"generation"}
      [] stage = "generation" -> {}

\* C30: in every turn the generation collaborator is invoked at most once,
\* and it is invoked if and only if the turn's result is produced by the
\* generation stage; exactly one of the four stages produces the result of a
\* turn, and the stages after the producing one do not run.
C30_OneStage ==
    turns > 0 =>
        /\ Calls(turn.trace, "llm.generate") <= 1
        /\ turn.kind = "returned"
        /\ Calls(turn.trace, "llm.generate") = 1 <=> Producer(turn) = "generation"
        /\ Ran(turn) \cap Later(Producer(turn)) = {}

(***************************************************************************)
(* The connections of the store                                            *)
(***************************************************************************)

\* C28: every operation of the store opens its own connection and has
\* closed it by the time the operation returns: after a call, none of the
\* connections it opened is open.
C28_ConnectionsClosed == call.name # "none" => call.open = 0

(***************************************************************************)
(* The mode across turns                                                   *)
(***************************************************************************)

\* C31: crisis protection follows the mode across turns: while the last
\* successful mode command is one that named mood, every input that is not a
\* command, contains a crisis phrase and contains no disallowed phrase is
\* blocked with reason crisis_guidance, whatever turns came in between.
C31_CrisisProtection ==
    [][(/\ IsTurn
        /\ announced = "mood"
        /\ turn'.command_result # None
        /\ ~turn'.command_result[1].handled
        /\ Crisis(turn'.user_text)
        /\ ~Disallowed(turn'.user_text))
       => (/\ turn'.kind = "returned"
           /\ ~turn'.safety_result[1].allowed
           /\ turn'.metadata = Some([type |-> "safety", reason |-> "crisis_guidance"])
           /\ turn'.text = CrisisMessage
           /\ Calls(turn'.trace, "llm.generate") = 0
           /\ announced' = "mood")]_vars

\* the third turn of a session is a blocked crisis input, mood being the mode
\* last set, in a session where an ordinary turn was answered by generation
C31_Witness ==
    /\ turns = ModeTurns
    /\ announced = "mood"
    /\ Crisis(turn.user_text)
    /\ turn.metadata = Some([type |-> "safety", reason |-> "crisis_guidance"])
    /\ short_term_history # <<>>

(***************************************************************************)
(* The advisory of the gate                                                *)
(***************************************************************************)

\* the values of a metadata mapping
Values(metadata) == { metadata[k] : k \in DOMAIN metadata }

\* the reply or its metadata carries the health disclaimer
Disclaimed(t) ==
    \/ Contains(t.text, DisclaimerMessage)
    \/ "reason" \in DOMAIN t.metadata[1]
    \/ \E v \in Values(t.metadata[1]) :
          v = "health_disclaimer" \/ Contains(v, DisclaimerMessage)

\* C32: in health mode, a turn whose input contains a diagnosis-seeking term and
\* that ends in the knowledge stage has result type kb or kb_miss, its text is
\* the card or the missing-entry message alone, and neither the text nor the
\* metadata carries the disclaimer or the reason health_disclaimer.
C32_NoDisclaimerInKnowledge ==
    [][(/\ IsTurn
        /\ mode = "health"
        /\ Diagnosis(turn'.user_text)
        /\ turn'.kind = "returned"
        /\ Producer(turn') = "knowledge")
       => (/\ turn'.metadata # None
           /\ turn'.metadata[1].type \in {"kb", "kb_miss"}
           /\ turn'.safety_result[1].message = DisclaimerMessage
           /\ turn'.text = IF turn'.metadata[1].type = "kb"
                           THEN RenderCard(TopHit(turn'.hits[1]).card)
                           ELSE KbMissText
           /\ ~Disclaimed(turn')
           /\ UNCHANGED short_term_history)]_vars

\* in health mode the gate attached the disclaimer to an input that a card
\* answered
C32_Witness ==
    /\ mode = "health"
    /\ Diagnosis(turn.user_text)
    /\ turn.kind = "returned"
    /\ turn.safety_result # None
    /\ turn.safety_result[1].message = DisclaimerMessage
    /\ turn.metadata # None
    /\ turn.metadata[1].type = "kb"
    /\ ~Disclaimed(turn)

\* in health mode the gate attached the disclaimer to an input that the
\* knowledge stage answered with the missing-entry message
C32_Miss ==
    /\ mode = "health"
    /\ Diagnosis(turn.user_text)
    /\ turn.safety_result # None
    /\ turn.safety_result[1].message = DisclaimerMessage
    /\ turn.metadata = Some([type |-> "kb_miss"])

\* in health mode the disclaimer reached the user on a generation turn
C32_Generated ==
    /\ mode = "health"
    /\ Diagnosis(turn.user_text)
    /\ turn.kind = "returned"
    /\ Producer(turn) = "generation"
    /\ Contains(turn.text, DisclaimerMessage)

=============================================================================
